---- MODULE Spec2Model ----
(***************************************************************************)
(* A model of the execution-qc parsing scripts: error_parser.py,           *)
(* report_parser.py, report_checker.py and report_flagger.py.  Each        *)
(* script resolves an                                                      *)
(* identifier to its QC artifacts, dispatches on the artifacts that exist, *)
(* runs one analyzer and hands the result to a batch driver that merges    *)
(* the per-identifier results into run-level counters.                     *)
(*                                                                         *)
(* Numbers.  The scripts compute with floats; the model computes exactly.  *)
(* A 0..1 ratio of the summary JSON is held in ten-thousandths, so that    *)
(* ratio*100 (a percentage) is the same integer read as hundredths of a    *)
(* percent.  A percentage that comes out of a division is kept as the      *)
(* fraction [n, d] (n/d hundredths of a percent) and compared by cross     *)
(* multiplication.  Ts/Tv ratios and qualities are held in hundredths.     *)
(* The two shares of a FastQC module, (n / d) * 100 over counts, are       *)
(* compared with their thresholds as the doubles they are (PercentCmp).    *)
(*                                                                         *)
(* Text.  `output` is the sequence of the diagnostic lines appended, each  *)
(* line named by a tag.                                                    *)
(***************************************************************************)
EXTENDS Integers, Sequences, FiniteSets, TLC

VARIABLES
    impl,         \* the script that runs
    egaf_list,    \* the identifiers given on the command line
    archive,      \* identifier -> the artifacts found under BASE_PATH
    warn_missing_file, \* not --no-species-warning
    include_crypt,     \* report_parser's --include-crypt
    threads,      \* --threads
    pc,           \* position of the batch driver
    batch,        \* the identifiers of the batch being processed
    rest,         \* the identifiers of the batches not yet submitted
    fut,          \* identifier -> state of its future
    res,          \* identifier -> what its worker returned
    summary,      \* the driver's run-level counters
    out_file,     \* the outputs written by the driver, in order
    rows,         \* report_parser's accumulated metric rows
    logged        \* identifiers whose future raised into the driver (logging.error)

vars == <<impl, egaf_list, archive, warn_missing_file, include_crypt, threads,
          pc, batch, rest, fut, res, summary, out_file, rows, logged>>

-----------------------------------------------------------------------------
(* Generic helpers.                                                         *)

\* dict.get(k, default)
Get(o, k, d) == IF k \in DOMAIN o THEN o[k] ELSE d

EmptyObj == [k \in {} |-> 0]

\* counter[k] += 1
Inc(c, k) == [c EXCEPT ![k] = @ + 1]

\* o[k][0] raises IndexError: the field is there and holds an empty array
EmptyArray(o, k) == k \in DOMAIN o /\ o[k] = <<>>

\* sum(count for quality, count in dist if quality <= maxq)
RECURSIVE SelectCount(_, _)
SelectCount(dist, maxq) ==
    IF dist = <<>> THEN 0
    ELSE (IF Head(dist)[1] <= maxq THEN Head(dist)[2] ELSE 0)
         + SelectCount(Tail(dist), maxq)

\* sum(count for _, count in dist)
RECURSIVE TotalCount(_)
TotalCount(dist) ==
    IF dist = <<>> THEN 0 ELSE Head(dist)[2] + TotalCount(Tail(dist))

\* a percentage as a fraction of hundredths of a percent
Frac(n, d) == [n |-> n, d |-> d]
FracGt(q, t) == q.n > t * q.d
FracLt(q, t) == q.n < t * q.d
FracIn(q, lo, hi) == lo * q.d <= q.n /\ q.n <= hi * q.d

\* "(n / d) * 100" in the doubles Python computes with, for counts
\* 0 <= n <= d, compared with a whole percentage t (in hundredths).  A
\* double has 52 fraction bits and every operation rounds to the nearest
\* double, ties to the even one.
fraction_bits == 52

RECURSIVE Pow2(_)
Pow2(k) == IF k = 0 THEN 1 ELSE 2 * Pow2(k - 1)
\* the least s with n * 2^s >= d: n / d lies in [2^-s, 2^(1-s))
RECURSIVE Shift(_, _)
Shift(n, d) == IF n >= d THEN 0 ELSE 1 + Shift(2 * n, d)

\* n / d: the quotient's significand is floor(n * 2^(s + 52) / d) with
\* remainder r; the double is the quotient plus DivErr / d units in its
\* last place.  r2 is n * 2^(s + 52) mod 2d, that is r, plus d when the
\* significand is odd; 2^52 mod 2d is ((2^13)^2)^2 mod 2d.
DivErr(n, d) ==
    LET Square(x) == (x * x) % (2 * d)
        Round(r2) == IF 2 * (r2 % d) < d \/ (2 * (r2 % d) = d /\ r2 < d)
                         THEN 0 - (r2 % d)
                         ELSE d - (r2 % d)
    IN Round((((n * Pow2(Shift(n, d))) % (2 * d))
                  * Square(Square(Pow2(fraction_bits \div 4) % (2 * d)))) % (2 * d))

\* the sign of (n / d) * 100 - t / 100 as doubles.  Where the two differ
\* as rationals the rounding (below 2^-44) does not change the sign; where
\* they are equal the product lies 100 * DivErr / d last places of n / d
\* from t / 100 and is rounded to the doubles around it, which are
\* 2^(Log2(t / 100) - 52) apart.
PercentCmp(n, d, t) ==
    LET RECURSIVE Log2(_)
        Log2(x) == IF x < 2 THEN 0 ELSE 1 + Log2(x \div 2)
        Sign(e, spacing) == IF 2 * 100 * e > spacing THEN 1
                            ELSE IF 2 * 100 * (0 - e) > spacing THEN 0 - 1
                            ELSE 0
    IN IF n * 10000 > t * d THEN 1
       ELSE IF n * 10000 < t * d THEN 0 - 1
       ELSE IF n = 0 THEN 0
       ELSE Sign(DivErr(n, d), d * Pow2(Shift(n, d) + Log2(t \div 100)))

-----------------------------------------------------------------------------
(* Thresholds, in hundredths.                                               *)

HundredPct == 10000       \* the literal 100 of "100 - (mapped_ratio * 100)"
UnalignedMax == 4000      \* reads_unaligned > 40.0
MapqCutoff == 29          \* quality <= 29
MapqMax == 2000           \* low_mapq_percentage > 20.0
DuplicateMax == 2000      \* duplicates_percentage > 20
GcMin == 3500             \* 35 <= gc
GcMax == 5500             \* gc <= 55
TsTvMin == 190            \* 1.9 <= ts_tv_ratio
TsTvMax == 330            \* ts_tv_ratio <= 3.3
AvgQualMin == 3000        \* avg_quality < 30
LowQualCutoff == 2000     \* quality < 20
LowQualMax == 2000        \* low_quality_percentage > 20
HighQualCutoff == 3000    \* report_parser: q >= 30
SpeciesMinPct == 500      \* max_percent < 5.0

-----------------------------------------------------------------------------
(* Counter keys of per_file_counts.                                         *)

BamKeys == {"QC report missing", "% reads unaligned >40",
            "% reads map qual <30 >20", "% duplicate >20", "key file missing",
            "% GC outside 35-55", "stats.txt error", "stats.txt missing"}

FastqKeys == {"QC report missing", "% GC outside 35-55", "% duplicate >20",
              "% reads qual <20 >20", "species file missing", "species error",
              "sp not human", "species unknown", "sp not-human"}

VcfKeys == {"QC report missing", "Ts/Tv ratio outside 1.9-3.3",
            "Ts/Tv ratio missing", "Avg QUAL <30", "Avg QUAL missing",
            "QC report error"}

\* per_file_counts as process_file initialises it
NewPerFileCounts ==
    [warnings_found |-> FALSE,
     files_with_warnings |-> 0,
     files_no_qc_report |-> 0,
     fastq_warnings |-> [k \in FastqKeys |-> 0],
     bam_cram_warnings |-> [k \in BamKeys |-> 0],
     vcf_warnings |-> [k \in VcfKeys |-> 0]]

\* the local state of an analyzer: (output, warnings_found, per_file_counts)
NewAnalysis(counts) == [output |-> <<>>, warnings_found |-> FALSE, counts |-> counts]

\* output += line; warnings_found = True
Warn(s, line) ==
    [s EXCEPT !.output = Append(@, line), !.warnings_found = TRUE]

\* the same, with per_file_counts[table][key] += 1
WarnCount(s, line, table, key) ==
    [Warn(s, line) EXCEPT !.counts[table] = Inc(@, key)]

-----------------------------------------------------------------------------
(* Artifacts.  A summary JSON is absent, or a file that gzip cannot read   *)
(* to its end (EOFError), or text json.load rejects (JSONDecodeError), or  *)
(* it parses to a scalar (null, a number), to a non-empty array or to an   *)
(* object.  An object is a function from the keys it holds to values.      *)

JsonAbsent == [kind |-> "absent", obj |-> EmptyObj]
JsonFile(kind) == [kind |-> kind, obj |-> EmptyObj]
JsonObject(o) == [kind |-> "object", obj |-> o]

\* Path.exists() / _if_exists()
Exists(f) == f.kind # "absent"

\* gzip.open(...) + json.load(...): the parsed value, or the exception raised
JsonLoad(j) ==
    CASE j.kind = "truncated" -> [raised |-> "EOFError", value |-> j]
      [] j.kind = "unparseable" -> [raised |-> "JSONDecodeError", value |-> j]
      [] OTHER -> [raised |-> "", value |-> j]

\* 'VCFVersion' in data; raises TypeError on a scalar
HasKey(j, k) == j.kind = "object" /\ k \in DOMAIN j.obj

\* a dispatcher whose "elif data:" is a plain "else:"
Truthy_always(j) == TRUE

\* bool(data) of a parsed value that is an array or an object
Truthy(j) == j.kind = "array" \/ (j.kind = "object" /\ DOMAIN j.obj # {})

-----------------------------------------------------------------------------
(* StatsDecryptor.  A byte string is a sequence of naturals below 256.     *)
(* MD5 and AES are ideal: a digest is the term Md5(data) over the pieces   *)
(* hashed, so that two digests are equal exactly when their inputs are,    *)
(* and a cipher block is the term of its key and its input block, which    *)
(* only the same key opens.  A 16-byte block is its known bytes XORed with *)
(* a set of such terms; a block with a term left in it is noise.           *)

key_len == 32
iv_len == 16
digest_size == 16
block_size == 16

\* the characters the stats text is made of
Ord == [tab |-> 9, nl |-> 10, space |-> 32, dot |-> 46, zero |-> 48,
        C |-> 67, F |-> 70, G |-> 71, L |-> 76, N |-> 78, S |-> 83]

Md5(data) == [md5 |-> data]

\* dtot[:key_len] and dtot[key_len:key_len+iv_len], in whole digests
KeyIv(dtot) ==
    [key |-> SubSeq(dtot, 1, key_len \div digest_size),
     iv |-> SubSeq(dtot, key_len \div digest_size + 1,
                   (key_len + iv_len) \div digest_size),
     dtot |-> dtot]

\* evp_bytes_to_key of error_parser: every round hashes all the digests so
\* far, then the password and the salt
ep_evp_bytes_to_key(password, salt) ==
    LET RECURSIVE rounds(_)
        rounds(dtot) ==
            IF Len(dtot) * digest_size < key_len + iv_len
                THEN rounds(Append(dtot, Md5(dtot \o <<password, salt>>)))
                ELSE dtot
    IN KeyIv(rounds(<<>>))

\* _evp_bytes_to_key of report_parser: every round hashes the digest of the
\* round before (d), then the password and the salt
rp_evp_bytes_to_key(pwd, salt) ==
    LET RECURSIVE rounds(_, _)
        rounds(d, dtot) ==
            IF Len(dtot) * digest_size < key_len + iv_len
                THEN LET md5 == Md5(d \o <<pwd, salt>>)
                     IN rounds(<<md5>>, Append(dtot, md5))
                ELSE dtot
    IN KeyIv(rounds(<<>>, <<>>))

\* blocks
ZeroBlock == [i \in 1..block_size |-> 0]
Opaque(t) == [lit |-> ZeroBlock, opq |-> {t}]

Xor(x, y) ==
    LET RECURSIVE BitXor(_, _)
        BitXor(a, b) ==
            IF a = 0 THEN b
            ELSE IF b = 0 THEN a
            ELSE ((a + b) % 2) + 2 * BitXor(a \div 2, b \div 2)
    IN [lit |-> [i \in 1..block_size |-> BitXor(x.lit[i], y.lit[i])],
        opq |-> (x.opq \ y.opq) \cup (y.opq \ x.opq)]

\* AES on one block
AesEncrypt(key, x) == Opaque([aes |-> key, blk |-> x])
AesDecrypt(key, c) ==
    IF c.lit = ZeroBlock
       /\ \E t \in c.opq : c.opq = {t} /\ "aes" \in DOMAIN t /\ t.aes = key
        THEN (CHOOSE t \in c.opq : TRUE).blk
        ELSE Opaque([aesinv |-> key, blk |-> c])

\* CBC: every block is XORed with the cipher block before it, the first
\* with the IV
RECURSIVE CbcEncrypt(_, _, _)
CbcEncrypt(key, prev, blocks) ==
    IF blocks = <<>> THEN <<>>
    ELSE LET c == AesEncrypt(key, Xor(Head(blocks), prev))
         IN <<c>> \o CbcEncrypt(key, c, Tail(blocks))

RECURSIVE CbcDecrypt(_, _, _)
CbcDecrypt(key, prev, blocks) ==
    IF blocks = <<>> THEN <<>>
    ELSE <<Xor(AesDecrypt(key, Head(blocks)), prev)>>
         \o CbcDecrypt(key, Head(blocks), Tail(blocks))

\* the bytes of the decrypted blocks; a noise block reads as the bytes the
\* stream happens to give
RECURSIVE BlockBytes(_, _)
BlockBytes(blocks, noise) ==
    IF blocks = <<>> THEN <<>>
    ELSE (IF Head(blocks).opq = {} THEN Head(blocks).lit
                                   ELSE [i \in 1..block_size |-> noise])
         \o BlockBytes(Tail(blocks), noise)

\* the header test left out
HeaderMissing_never(raw) == FALSE

\* encrypted_data[:8] != b'Salted__'
HeaderMissing(raw) == raw.magic # "Salted__"

\* decrypted_padded[:-padding_length]: a slice that ends padding_length
\* bytes before the end, and at the start when padding_length is zero
RemovePadding(padded) ==
    LET padding_length == padded[Len(padded)]
    IN IF padding_length = 0 \/ padding_length >= Len(padded)
           THEN <<>>
           ELSE SubSeq(padded, 1, Len(padded) - padding_length)

\* bytes.decode('utf-8'), over byte strings without multi-byte characters:
\* a byte of 128 or more is then not the start of a character
Utf8Invalid(bytes) == \E i \in 1..Len(bytes) : bytes[i] >= 128

\* decrypt_stats_file of the script, which runs its own key derivation;
\* steps are the calls made up to the return or the raise
decrypt_stats_file(script, stats, password) ==
    LET Failed(exception, steps) ==
            [raised |-> exception, text |-> <<>>, steps |-> steps,
             padded |-> <<>>, data |-> <<>>]
    IN
    IF ~stats.gz
        THEN Failed("BadGzipFile", <<"gunzip">>)
    ELSE IF ~stats.b64
        THEN Failed("binascii.Error", <<"gunzip", "b64decode">>)
    ELSE IF HeaderMissing(stats.raw)
        THEN Failed("ValueError", <<"gunzip", "b64decode">>)
    ELSE
    LET k == IF script = "error_parser"
                 THEN ep_evp_bytes_to_key(password, stats.raw.salt)
                 ELSE rp_evp_bytes_to_key(password, stats.raw.salt)
        padded == BlockBytes(CbcDecrypt(k.key, Opaque(k.iv[1]), stats.raw.blocks),
                             stats.noise)
        steps == <<"gunzip", "b64decode", "evp_bytes_to_key", "decrypt">>
    IN IF stats.raw.extra # 0
           THEN Failed("ValueError", steps)
       ELSE IF padded = <<>>
           THEN Failed("IndexError", steps)
       ELSE LET data == RemovePadding(padded)
            IN IF Utf8Invalid(data)
                   THEN [Failed("UnicodeDecodeError", steps)
                            EXCEPT !.padded = padded, !.data = data]
                   ELSE [raised |-> "", text |-> data, steps |-> steps,
                         padded |-> padded, data |-> data]

\* the stats text, line by line
RECURSIVE SplitOn(_, _)
SplitOn(chars, seps) ==
    IF \A i \in 1..Len(chars) : chars[i] \notin seps
        THEN <<chars>>
        ELSE LET i == CHOOSE j \in 1..Len(chars) :
                          /\ chars[j] \in seps
                          /\ \A h \in 1..(j - 1) : chars[h] \notin seps
             IN <<SubSeq(chars, 1, i - 1)>>
                \o SplitOn(SubSeq(chars, i + 1, Len(chars)), seps)

\* str.splitlines: no empty line after the last line break
splitlines(text) ==
    LET ls == SplitOn(text, {Ord.nl})
    IN IF ls[Len(ls)] = <<>> THEN SubSeq(ls, 1, Len(ls) - 1) ELSE ls

\* int() over plain decimal digits
Digits(chars) ==
    chars # <<>> /\ \A i \in 1..Len(chars) : chars[i] \in Ord.zero..(Ord.zero + 9)

RECURSIVE int(_)
int(chars) ==
    IF chars = <<>> THEN 0
    ELSE 10 * int(SubSeq(chars, 1, Len(chars) - 1)) + (chars[Len(chars)] - Ord.zero)

\* float() over plain decimal numbers of at most two decimals, in hundredths
IsFloat(chars) ==
    LET p == SplitOn(chars, {Ord.dot})
    IN \/ Len(p) = 1 /\ Digits(p[1])
       \/ Len(p) = 2 /\ Digits(p[1]) /\ Digits(p[2])

float(chars) ==
    LET p == SplitOn(chars, {Ord.dot})
        frac == IF Len(p) = 1 THEN <<>> ELSE p[2]
    IN 100 * int(p[1])
       + (IF Len(frac) = 0 THEN 0
          ELSE IF Len(frac) = 1 THEN 10 * int(frac)
          ELSE int(SubSeq(frac, 1, 2)))

\* a line of the stats text as the GC scans see it: its prefix, the number
\* of parts it splits into, and the two numbers read from it
StatsLine(line, parts, gc_percent, count) ==
    LET startswith(prefix) ==
            Len(line) >= Len(prefix) /\ SubSeq(line, 1, Len(prefix)) = prefix
    IN [prefix |-> IF startswith(<<Ord.G, Ord.C, Ord.F>>) THEN "GCF"
                   ELSE IF startswith(<<Ord.G, Ord.C, Ord.L>>) THEN "GCL"
                   ELSE IF startswith(<<Ord.G, Ord.C>>) THEN "GC"
                   ELSE "other",
        parts |-> Len(parts),
        numeric |-> IsFloat(gc_percent) /\ Digits(count),
        gc |-> IF IsFloat(gc_percent) THEN float(gc_percent) ELSE 0,
        n |-> IF Digits(count) THEN int(count) ELSE 0]

\* error_parser: line.strip(), line.split('\t'), float(parts[0][3:]) and
\* int(parts[1])
ep_StatsLines(text) ==
    LET Whitespace == {Ord.tab, Ord.nl, Ord.space}
        RECURSIVE strip(_)
        strip(line) ==
            IF line = <<>> THEN line
            ELSE IF Head(line) \in Whitespace THEN strip(Tail(line))
            ELSE IF line[Len(line)] \in Whitespace
                THEN strip(SubSeq(line, 1, Len(line) - 1))
            ELSE line
        Parsed(l) ==
            LET line == strip(l)
                parts == SplitOn(line, {Ord.tab})
            IN IF Len(parts) = 2
                   THEN StatsLine(line, parts,
                                  SubSeq(parts[1], 4, Len(parts[1])), parts[2])
                   ELSE StatsLine(line, parts, <<>>, <<>>)
        lines == splitlines(text)
    IN [i \in 1..Len(lines) |-> Parsed(lines[i])]

\* report_parser: l.split() on blanks, float(parts[1]) and int(parts[2])
rp_StatsLines(text) ==
    LET Whitespace == {Ord.tab, Ord.nl, Ord.space}
        Parsed(l) ==
            LET parts == SelectSeq(SplitOn(l, Whitespace), LAMBDA p : p # <<>>)
            IN IF Len(parts) = 3
                   THEN StatsLine(l, parts, parts[2], parts[3])
                   ELSE StatsLine(l, parts, <<>>, <<>>)
        lines == splitlines(text)
    IN [i \in 1..Len(lines) |-> Parsed(lines[i])]

\* error_parser: a line counts when it starts with GCF or GCL and splits on
\* tabs into exactly two parts, "GCF<gc>" and "<count>"
ep_GcLine(l) == l.prefix \in {"GCF", "GCL"} /\ l.parts = 2

RECURSIVE ep_GcTotals(_)
ep_GcTotals(lines) ==
    IF lines = <<>> THEN [gc |-> 0, n |-> 0]
    ELSE LET t == ep_GcTotals(Tail(lines))
             l == Head(lines)
         IN IF ep_GcLine(l)
                THEN [gc |-> t.gc + l.gc * l.n, n |-> t.n + l.n]
                ELSE t

-----------------------------------------------------------------------------
(* error_parser.analyze_bam_cram                                           *)

\* the unaligned check with ">=" for ">"
ep_CheckMappedReads_ge(s, data_section) ==
    IF "MappedReads" \in DOMAIN data_section
        THEN IF HundredPct - data_section["MappedReads"][1] >= UnalignedMax
                 THEN WarnCount(s, "reads unaligned exceeds 40%",
                                "bam_cram_warnings", "% reads unaligned >40")
                 ELSE s
        ELSE Warn(s, "'MappedReads' not found")

ep_CheckMappedReads(s, data_section) ==
    IF "MappedReads" \in DOMAIN data_section
        THEN LET mapped_ratio == data_section["MappedReads"][1]
                 reads_unaligned == HundredPct - mapped_ratio
             IN IF reads_unaligned > UnalignedMax
                    THEN WarnCount(s, "reads unaligned exceeds 40%",
                                   "bam_cram_warnings", "% reads unaligned >40")
                    ELSE s
        ELSE Warn(s, "'MappedReads' not found")

\* the percentage taken over the sum of the distribution's counts
ep_low_mapq_percentage_dist(map_qual_dist, total_reads) ==
    IF TotalCount(map_qual_dist) > 0
        THEN Frac(SelectCount(map_qual_dist, MapqCutoff) * HundredPct,
                  TotalCount(map_qual_dist))
        ELSE Frac(0, 1)

\* low_mapq_percentage = (low_mapq_sum / total_reads) * 100 if total_reads > 0 else 0
ep_low_mapq_percentage(map_qual_dist, total_reads) ==
    IF total_reads > 0
        THEN Frac(SelectCount(map_qual_dist, MapqCutoff) * HundredPct, total_reads)
        ELSE Frac(0, 1)

ep_CheckMapq(s, data_section, total_reads) ==
    IF "MappingQualityDistribution" \in DOMAIN data_section
        THEN LET map_qual_dist == data_section["MappingQualityDistribution"]
             IN IF FracGt(ep_low_mapq_percentage(map_qual_dist, total_reads), MapqMax)
                    THEN WarnCount(s, "map quality <30 exceeds 20%",
                                   "bam_cram_warnings", "% reads map qual <30 >20")
                    ELSE s
        ELSE Warn(s, "'MappingQualityDistribution' not found")

ep_CheckDuplicates(s, data_section) ==
    IF "Duplicates" \in DOMAIN data_section
        THEN LET duplicates_percentage == data_section["Duplicates"][1]
             IN IF duplicates_percentage > DuplicateMax
                    THEN WarnCount(s, "duplicate reads exceed 20%",
                                   "bam_cram_warnings", "% duplicate >20")
                    ELSE s
        ELSE Warn(s, "'Duplicates' not found")

\* the try block over the summary JSON
ep_BamJsonChecks(s, json) ==
    LET loaded == JsonLoad(json)
    IN IF loaded.raised # "" \/ json.kind # "object"
           \* json.load raised, or data.get raised AttributeError
           THEN Warn(s, "Error processing BAM/CRAM QC report")
           ELSE LET data == json.obj
                    total_reads == Get(data, "TotalReads", 0)
                    data_section == Get(data, "Data", EmptyObj)
                    s1 == ep_CheckMappedReads(s, data_section)
                    s2 == ep_CheckMapq(s1, data_section, total_reads)
                IN \* an IndexError ends the try block where it is raised
                   IF EmptyArray(data_section, "MappedReads")
                       THEN Warn(s, "Error processing BAM/CRAM QC report")
                   ELSE IF EmptyArray(data_section, "Duplicates")
                       THEN Warn(s2, "Error processing BAM/CRAM QC report")
                   ELSE ep_CheckDuplicates(s2, data_section)

\* a stats block whose failure discards what the summary gave
ep_BamStatsChecks_fatal(s, stats, key) ==
    IF ~stats.exists
        THEN WarnCount(s, "stats.txt.openssl.gz not found",
                       "bam_cram_warnings", "stats.txt missing")
    ELSE IF ~key.exists
        THEN WarnCount(s, "Encryption key file not found",
                       "bam_cram_warnings", "key file missing")
    ELSE LET dec == decrypt_stats_file("error_parser", stats, key.password)
             lines == ep_StatsLines(dec.text)
             t == ep_GcTotals(lines)
         IN IF dec.raised # ""
               \/ \E i \in 1..Len(lines) : ep_GcLine(lines[i]) /\ ~lines[i].numeric
                THEN WarnCount(NewAnalysis(NewPerFileCounts),
                               "Error processing encrypted stats file",
                               "bam_cram_warnings", "stats.txt error")
            ELSE IF t.n > 0
                THEN IF ~FracIn(Frac(t.gc, t.n), GcMin, GcMax)
                         THEN WarnCount(s, "average GC content outside 35%-55%",
                                        "bam_cram_warnings", "% GC outside 35-55")
                         ELSE s
                ELSE Warn(s, "total base count is zero")

\* the block over stats.txt.openssl.gz
ep_BamStatsChecks(s, stats, key) ==
    IF ~stats.exists
        THEN WarnCount(s, "stats.txt.openssl.gz not found",
                       "bam_cram_warnings", "stats.txt missing")
    ELSE IF ~key.exists
        THEN WarnCount(s, "Encryption key file not found",
                       "bam_cram_warnings", "key file missing")
    ELSE LET dec == decrypt_stats_file("error_parser", stats, key.password)
             lines == ep_StatsLines(dec.text)
             t == ep_GcTotals(lines)
         IN IF dec.raised # ""
               \/ \E i \in 1..Len(lines) : ep_GcLine(lines[i]) /\ ~lines[i].numeric
                THEN WarnCount(s, "Error processing encrypted stats file",
                               "bam_cram_warnings", "stats.txt error")
            ELSE IF t.n > 0
                THEN IF ~FracIn(Frac(t.gc, t.n), GcMin, GcMax)
                         THEN WarnCount(s, "average GC content outside 35%-55%",
                                        "bam_cram_warnings", "% GC outside 35-55")
                         ELSE s
                ELSE Warn(s, "total base count is zero")

ep_analyze_bam_cram(json, stats, key, counts) ==
    LET s == NewAnalysis(counts)
    IN IF ~Exists(json)
           THEN WarnCount(s, "BAM/CRAM QC report not found",
                          "bam_cram_warnings", "QC report missing")
           ELSE ep_BamStatsChecks(ep_BamJsonChecks(s, json), stats, key)

-----------------------------------------------------------------------------
(* error_parser.analyze_vcf                                                *)

\* the Ts/Tv check with the range open at both ends
ep_CheckTsTv_open(s, data) ==
    IF "TsTvRatio" \in DOMAIN data
        THEN IF ~(TsTvMin < data["TsTvRatio"] /\ data["TsTvRatio"] < TsTvMax)
                 THEN WarnCount(s, "Ts/Tv ratio outside 1.9 - 3.3",
                                "vcf_warnings", "Ts/Tv ratio outside 1.9-3.3")
                 ELSE s
        ELSE WarnCount(s, "Ts/Tv ratio not found",
                       "vcf_warnings", "Ts/Tv ratio missing")

ep_CheckTsTv(s, data) ==
    IF "TsTvRatio" \in DOMAIN data
        THEN LET ts_tv_ratio == data["TsTvRatio"]
             IN IF ~(TsTvMin <= ts_tv_ratio /\ ts_tv_ratio <= TsTvMax)
                    THEN WarnCount(s, "Ts/Tv ratio outside 1.9 - 3.3",
                                   "vcf_warnings", "Ts/Tv ratio outside 1.9-3.3")
                    ELSE s
        ELSE WarnCount(s, "Ts/Tv ratio not found",
                       "vcf_warnings", "Ts/Tv ratio missing")

ep_CheckAvgQuality(s, data) ==
    IF "AvgQuality" \in DOMAIN data
        THEN LET avg_quality == data["AvgQuality"]
             IN IF avg_quality < AvgQualMin
                    THEN WarnCount(s, "average variant quality below 30",
                                   "vcf_warnings", "Avg QUAL <30")
                    ELSE s
        ELSE WarnCount(s, "average variant quality not found",
                       "vcf_warnings", "Avg QUAL missing")

ep_analyze_vcf(json, counts) ==
    LET s == NewAnalysis(counts)
        loaded == JsonLoad(json)
    IN IF ~Exists(json)
           THEN WarnCount(s, "VCF QC report not found",
                          "vcf_warnings", "QC report missing")
       ELSE IF loaded.raised # "" \/ json.kind # "object"
           THEN WarnCount(s, "Error processing VCF QC report",
                          "vcf_warnings", "QC report error")
       ELSE ep_CheckAvgQuality(ep_CheckTsTv(s, json.obj), json.obj)

-----------------------------------------------------------------------------
(* The species screening report.  A line holds the column names it shows   *)
(* when split on tabs (cols, empty for a data line), its first cell        *)
(* (genome), and for a data line the one-hit read count and percentage;    *)
(* numeric says that the line has the cells asked for and that they parse  *)
(* as numbers.                                                             *)

SpeciesColumns == {"Genome", "#One_hit_one_genome", "%One_hit_one_genome"}

NoSpecies == [text |-> "", flag |-> FALSE, issue |-> ""]

\* the scan over lines[2:], keeping the first row with the largest count
RECURSIVE ep_MaxRow(_, _)
ep_MaxRow(data_lines, best) ==
    IF data_lines = <<>> THEN best
    ELSE LET l == Head(data_lines)
         IN ep_MaxRow(Tail(data_lines),
                IF l.numeric /\ l.one_hit > best.max_value
                    THEN [max_value |-> l.one_hit, max_species |-> l.genome,
                          max_percent |-> l.pct]
                    ELSE best)

\* check_species warning of an absent file whatever the flag says
ep_check_species_always(txt, warn_missing) ==
    IF ~txt.exists
        THEN [text |-> "species file not found", flag |-> TRUE,
              issue |-> "species file missing"]
    ELSE IF Len(txt.lines) >= 3
        THEN IF ~(SpeciesColumns \subseteq txt.lines[2].cols)
                 THEN [text |-> "required columns not found", flag |-> TRUE,
                       issue |-> "species error"]
                 ELSE LET best == ep_MaxRow(SubSeq(txt.lines, 3, Len(txt.lines)),
                                            [max_value |-> -1, max_species |-> "",
                                             max_percent |-> 0])
                      IN IF best.max_species # "Human"
                             THEN [text |-> "most reads mapped to another species",
                                   flag |-> TRUE, issue |-> "sp not human"]
                         ELSE IF best.max_percent < SpeciesMinPct
                             THEN [text |-> "species is unknown", flag |-> TRUE,
                                   issue |-> "species unknown"]
                         ELSE NoSpecies
    ELSE NoSpecies

\* check_species taking the column names from the third line
ep_check_species_row2(txt, warn_missing) ==
    IF ~txt.exists
        THEN IF warn_missing
                 THEN [text |-> "species file not found", flag |-> TRUE,
                       issue |-> "species file missing"]
                 ELSE NoSpecies
    ELSE IF Len(txt.lines) >= 3
        THEN IF ~(SpeciesColumns \subseteq txt.lines[3].cols)
                 THEN [text |-> "required columns not found", flag |-> TRUE,
                       issue |-> "species error"]
                 ELSE LET best == ep_MaxRow(SubSeq(txt.lines, 4, Len(txt.lines)),
                                            [max_value |-> -1, max_species |-> "",
                                             max_percent |-> 0])
                      IN IF best.max_species # "Human"
                             THEN [text |-> "most reads mapped to another species",
                                   flag |-> TRUE, issue |-> "sp not human"]
                         ELSE IF best.max_percent < SpeciesMinPct
                             THEN [text |-> "species is unknown", flag |-> TRUE,
                                   issue |-> "species unknown"]
                         ELSE NoSpecies
    ELSE NoSpecies

\* error_parser.check_species
ep_check_species(txt, warn_missing) ==
    IF ~txt.exists
        THEN IF warn_missing
                 THEN [text |-> "species file not found", flag |-> TRUE,
                       issue |-> "species file missing"]
                 ELSE NoSpecies
    ELSE IF Len(txt.lines) >= 3
        THEN IF ~(SpeciesColumns \subseteq txt.lines[2].cols)
                 THEN [text |-> "required columns not found", flag |-> TRUE,
                       issue |-> "species error"]
                 ELSE LET best == ep_MaxRow(SubSeq(txt.lines, 3, Len(txt.lines)),
                                            [max_value |-> -1, max_species |-> "",
                                             max_percent |-> 0])
                      IN IF best.max_species # "Human"
                             THEN [text |-> "most reads mapped to another species",
                                   flag |-> TRUE, issue |-> "sp not human"]
                         ELSE IF best.max_percent < SpeciesMinPct
                             THEN [text |-> "species is unknown", flag |-> TRUE,
                                   issue |-> "species unknown"]
                         ELSE NoSpecies
    ELSE NoSpecies

-----------------------------------------------------------------------------
(* The FastQC report, fastqc_data.txt.  A line is one of                   *)
(*   gc_start, dup_start, qual_start, basic_start: a ">>Name\tstatus" line *)
(*   end: ">>END_MODULE"                                                   *)
(*   gc_hdr: "#GC Content\tCount"     qual_hdr: "#Quality\tCount"          *)
(*   dedup: "#Total Deduplicated Percentage\t<a>"    pct_gc: "%GC\t<a>"    *)
(*   row: "<a>\t<b>", two numbers                                          *)
(*   other: a line of one cell or of three and more, none of the above     *)
(* a and b are in hundredths where they are percentages or qualities.      *)

\* float(parts[0]), float(parts[1]) succeed on a two-part line
NumericRow(l) == l.kind = "row"
\* len(line.strip().split("\t")) == 2
TwoParts(l) == l.kind \notin {"end", "other"}

\* "for line in lines_iter: if line.startswith(marker): break": the position
\* after the first line of that kind at or after i, or past the end
RECURSIVE SkipPast(_, _, _)
SkipPast(lines, i, kind) ==
    IF i > Len(lines) THEN i
    ELSE IF lines[i].kind = kind THEN i + 1
    ELSE SkipPast(lines, i + 1, kind)

\* the rows read from position i up to >>END_MODULE: the two-part lines
\* are converted with float(), which raises ValueError on text
RECURSIVE ReadRows(_, _, _)
ReadRows(lines, i, acc) ==
    IF i > Len(lines) THEN [next |-> i, rows |-> acc, raised |-> ""]
    ELSE LET l == lines[i]
         IN IF l.kind = "end" THEN [next |-> i + 1, rows |-> acc, raised |-> ""]
            ELSE IF ~TwoParts(l) THEN ReadRows(lines, i + 1, acc)
            ELSE IF NumericRow(l) THEN ReadRows(lines, i + 1, Append(acc, <<l.a, l.b>>))
            ELSE [next |-> i + 1, rows |-> acc, raised |-> "ValueError"]

RECURSIVE CountWhere(_, _, _)
CountWhere(rws, lo, hi) ==
    IF rws = <<>> THEN 0
    ELSE (IF lo <= Head(rws)[1] /\ Head(rws)[1] <= hi THEN Head(rws)[2] ELSE 0)
         + CountWhere(Tail(rws), lo, hi)

\* sum of the counts of the rows whose first cell is < cutoff
RECURSIVE CountBelow(_, _)
CountBelow(rws, cutoff) ==
    IF rws = <<>> THEN 0
    ELSE (IF Head(rws)[1] < cutoff THEN Head(rws)[2] ELSE 0)
         + CountBelow(Tail(rws), cutoff)

\* a GC branch that compares the count-weighted mean GC with the range
ep_GcModule_mean(s, rws) ==
    LET total_gc_content == TotalCount(rws)
        weighted == [i \in 1..Len(rws) |-> <<0, rws[i][1] * rws[i][2]>>]
    IN IF total_gc_content > 0
           THEN IF ~FracIn(Frac(TotalCount(weighted), total_gc_content), GcMin, GcMax)
                    THEN WarnCount(s, "GC content out of range 35%-55%",
                                   "fastq_warnings", "% GC outside 35-55")
                    ELSE s
           ELSE Warn(s, "total GC content is zero")

\* error_parser.analyze_fastq: the "Per sequence GC content" branch
ep_GcModule(s, rws) ==
    LET total_gc_content == TotalCount(rws)
        gc_in_range == CountWhere(rws, GcMin, GcMax)
    IN IF total_gc_content > 0
           THEN IF ~(PercentCmp(gc_in_range, total_gc_content, GcMin) >= 0
                     /\ PercentCmp(gc_in_range, total_gc_content, GcMax) <= 0)
                    THEN WarnCount(s, "GC content out of range 35%-55%",
                                   "fastq_warnings", "% GC outside 35-55")
                    ELSE s
           ELSE Warn(s, "total GC content is zero")

\* the "#Total Deduplicated Percentage" line of "Sequence Duplication Levels"
ep_DupLine(s, l) ==
    LET duplicate_reads_percentage == HundredPct - l.a
    IN IF duplicate_reads_percentage > DuplicateMax
           THEN WarnCount(s, "duplicate reads exceed 20%",
                          "fastq_warnings", "% duplicate >20")
           ELSE s

\* a quality branch that warns from 20% on
ep_QualModule_ge(s, rws) ==
    LET total_quality_count == TotalCount(rws)
        low_quality_count == CountBelow(rws, LowQualCutoff)
    IN IF total_quality_count > 0
           THEN IF PercentCmp(low_quality_count, total_quality_count, LowQualMax) >= 0
                    THEN WarnCount(s, "reads with quality score <20 exceed 20%",
                                   "fastq_warnings", "% reads qual <20 >20")
                    ELSE s
           ELSE Warn(s, "total quality score count is zero")

\* the "Per sequence quality scores" branch
ep_QualModule(s, rws) ==
    LET total_quality_count == TotalCount(rws)
        low_quality_count == CountBelow(rws, LowQualCutoff)
    IN IF total_quality_count > 0
           THEN IF PercentCmp(low_quality_count, total_quality_count, LowQualMax) > 0
                    THEN WarnCount(s, "reads with quality score <20 exceed 20%",
                                   "fastq_warnings", "% reads qual <20 >20")
                    ELSE s
           ELSE Warn(s, "total quality score count is zero")

\* the outer "for line in lines_iter" from position i on
RECURSIVE ep_ScanFastq(_, _, _)
ep_ScanFastq(lines, i, s) ==
    IF i > Len(lines) THEN [s |-> s, raised |-> ""]
    ELSE LET l == lines[i]
         IN CASE l.kind = "gc_start" ->
                    LET r == ReadRows(lines, SkipPast(lines, i + 1, "gc_hdr"), <<>>)
                    IN IF r.raised # "" THEN [s |-> s, raised |-> r.raised]
                       ELSE ep_ScanFastq(lines, r.next, ep_GcModule(s, r.rows))
              [] l.kind = "dup_start" ->
                    LET j == SkipPast(lines, i + 1, "dedup")
                    IN IF j - 1 <= Len(lines) /\ j - 1 > i /\ lines[j - 1].kind = "dedup"
                           THEN ep_ScanFastq(lines, j, ep_DupLine(s, lines[j - 1]))
                           ELSE ep_ScanFastq(lines, j, s)
              [] l.kind = "qual_start" ->
                    LET r == ReadRows(lines, SkipPast(lines, i + 1, "qual_hdr"), <<>>)
                    IN IF r.raised # "" THEN [s |-> s, raised |-> r.raised]
                       ELSE ep_ScanFastq(lines, r.next, ep_QualModule(s, r.rows))
              [] OTHER -> ep_ScanFastq(lines, i + 1, s)

\* the species block that ends the try
ep_SpeciesBlock(s, txt, warn_missing) ==
    LET sp == ep_check_species(txt, warn_missing)
    IN IF sp.text # ""
           THEN WarnCount(s, sp.text, "fastq_warnings", sp.issue)
           ELSE s

\* a zip archive: absent, not a zip (BadZipFile), without the member
\* stdin_fastqc/fastqc_data.txt (KeyError), or holding its lines
ep_analyze_fastq(zip, txt, warn_missing, counts) ==
    LET s == NewAnalysis(counts)
    IN IF zip.kind = "absent"
           THEN WarnCount(s, "FASTQ QC report not found",
                          "fastq_warnings", "QC report missing")
       ELSE IF zip.kind # "ok"
           THEN Warn(s, "Error processing FASTQ QC report")
       ELSE LET r == ep_ScanFastq(zip.lines, 1, s)
            IN IF r.raised # ""
                   THEN Warn(r.s, "Error processing FASTQ QC report")
                   ELSE ep_SpeciesBlock(r.s, txt, warn_missing)

-----------------------------------------------------------------------------
(* report_parser: analyzers that return metric rows (flag_key, value) and  *)
(* swallow every exception.                                                *)

\* _mean_gc_from_stats: lines starting with "GC" that split on whitespace
\* into three parts, "GCF", "<gc>", "<count>"
rp_GcLine(l) == l.prefix \in {"GCF", "GCL", "GC"} /\ l.parts = 3

RECURSIVE rp_GcTotals(_)
rp_GcTotals(lines) ==
    IF lines = <<>> THEN [gc |-> 0, n |-> 0]
    ELSE LET t == rp_GcTotals(Tail(lines))
             l == Head(lines)
         IN IF rp_GcLine(l)
                THEN [gc |-> t.gc + l.gc * l.n, n |-> t.n + l.n]
                ELSE t

\* the rows _mean_gc_from_stats adds: none when count is zero (None)
rp_mean_gc_from_stats(text) ==
    LET lines == rp_StatsLines(text)
        t == rp_GcTotals(lines)
    IN IF \E i \in 1..Len(lines) : rp_GcLine(lines[i]) /\ ~lines[i].numeric
           THEN <<>>
       ELSE IF t.n # 0 THEN <<[key |-> "gc_content", value |-> Frac(t.gc, t.n)]>> ELSE <<>>

rp_MetricMappedReads(d) ==
    IF "MappedReads" \in DOMAIN d
        THEN <<[key |-> "unaligned", value |-> Frac(HundredPct - d["MappedReads"][1], 1)]>>
        ELSE <<>>

\* tot = sum(c for _, c in dist); low = sum(c for q, c in dist if q <= 29)
rp_MetricMapq(d) ==
    IF "MappingQualityDistribution" \in DOMAIN d
        THEN LET dist == d["MappingQualityDistribution"]
                 tot == TotalCount(dist)
                 low == SelectCount(dist, MapqCutoff)
             IN IF tot # 0
                    THEN <<[key |-> "mapq", value |-> Frac(low * HundredPct, tot)]>>
                    ELSE <<>>
        ELSE <<>>

rp_MetricDuplicates(d) ==
    IF "Duplicates" \in DOMAIN d
        THEN <<[key |-> "duplicate_reads", value |-> Frac(d["Duplicates"][1], 1)]>>
        ELSE <<>>

\* dec_stats is the decrypted text, or the empty text when there is none
rp_analyze_bamcram(json, dec_stats) ==
    LET loaded == JsonLoad(json)
    IN IF loaded.raised # "" \/ json.kind # "object"
           THEN <<>>
           ELSE LET data == json.obj
                    d == Get(data, "Data", EmptyObj)
                    ins == IF "InsertSize" \in DOMAIN data
                               THEN <<[key |-> "insert_size",
                                       value |-> Frac(data["InsertSize"], 1)]>>
                               ELSE <<>>
                IN \* "except Exception: pass" keeps the metrics appended so far
                   IF EmptyArray(d, "MappedReads") THEN ins
                   ELSE IF EmptyArray(d, "Duplicates")
                       THEN ins \o rp_MetricMappedReads(d) \o rp_MetricMapq(d)
                   ELSE ins
                        \o rp_MetricMappedReads(d)
                        \o rp_MetricMapq(d)
                        \o rp_MetricDuplicates(d)
                        \o (IF dec_stats # <<>>
                                THEN rp_mean_gc_from_stats(dec_stats) ELSE <<>>)

rp_analyze_vcf(json) ==
    LET loaded == JsonLoad(json)
    IN IF loaded.raised # "" \/ json.kind # "object"
           THEN <<>>
           ELSE LET data == json.obj
                    d == Get(data, "Data", EmptyObj)
                IN (IF "TsTvRatio" \in DOMAIN d
                        THEN <<[key |-> "tstv_ratio", value |-> Frac(d["TsTvRatio"], 1)]>>
                        ELSE <<>>)
                   \o (IF "AvgQuality" \in DOMAIN data
                           THEN <<[key |-> "avg_qual", value |-> Frac(data["AvgQuality"], 1)]>>
                       ELSE IF "AvgQuality" \in DOMAIN d
                           THEN <<[key |-> "avg_qual", value |-> Frac(d["AvgQuality"], 1)]>>
                       ELSE <<>>)

\* report_parser's module loops stop at >>END_MODULE as well as at the
\* line looked for: the position after the first line of either kind
RECURSIVE SkipPastOrEnd(_, _, _)
SkipPastOrEnd(lines, i, kind) ==
    IF i > Len(lines) THEN i
    ELSE IF lines[i].kind \in {kind, "end"} THEN i + 1
    ELSE SkipPastOrEnd(lines, i + 1, kind)

\* "q, c = map(float, ln.split('\t'))" raises ValueError on every line that
\* is not two numbers
RECURSIVE rp_ReadRows(_, _, _)
rp_ReadRows(lines, i, acc) ==
    IF i > Len(lines) THEN [next |-> i, rows |-> acc, raised |-> ""]
    ELSE LET l == lines[i]
         IN IF l.kind = "end" THEN [next |-> i + 1, rows |-> acc, raised |-> ""]
            ELSE IF NumericRow(l) THEN rp_ReadRows(lines, i + 1, Append(acc, <<l.a, l.b>>))
            ELSE [next |-> i + 1, rows |-> acc, raised |-> "ValueError"]

\* m holds dup, gc_pct and q20, each a sequence of at most one value (None
\* or a number)
RECURSIVE rp_ScanFastq(_, _, _)
rp_ScanFastq(lines, i, m) ==
    IF i > Len(lines) THEN [m |-> m, raised |-> ""]
    ELSE LET l == lines[i]
         IN CASE l.kind = "basic_start" ->
                    LET j == SkipPastOrEnd(lines, i + 1, "pct_gc")
                    IN IF j - 1 > i /\ lines[j - 1].kind = "pct_gc"
                           THEN rp_ScanFastq(lines, j,
                                    [m EXCEPT !.gc_pct = <<Frac(lines[j - 1].a, 1)>>])
                           ELSE rp_ScanFastq(lines, j, m)
              [] l.kind = "dup_start" ->
                    LET j == SkipPastOrEnd(lines, i + 1, "dedup")
                    IN IF j - 1 > i /\ lines[j - 1].kind = "dedup"
                           THEN rp_ScanFastq(lines, j,
                                    [m EXCEPT !.dup = <<Frac(HundredPct - lines[j - 1].a, 1)>>])
                           ELSE rp_ScanFastq(lines, j, m)
              [] l.kind = "qual_start" ->
                    LET r == rp_ReadRows(lines, SkipPast(lines, i + 1, "qual_hdr"), <<>>)
                        tot == TotalCount(r.rows)
                        high == TotalCount(r.rows) - CountBelow(r.rows, HighQualCutoff)
                    IN IF r.raised # "" THEN [m |-> m, raised |-> r.raised]
                       ELSE rp_ScanFastq(lines, r.next,
                                IF tot # 0
                                    THEN [m EXCEPT !.q20 = <<Frac(high * HundredPct, tot)>>]
                                    ELSE m)
              [] OTHER -> rp_ScanFastq(lines, i + 1, m)

rp_analyze_fastq(zip) ==
    IF zip.kind # "ok" THEN <<>>
    ELSE LET r == rp_ScanFastq(zip.lines, 1, [dup |-> <<>>, gc_pct |-> <<>>, q20 |-> <<>>])
         IN IF r.raised # "" THEN <<>>
            ELSE (IF r.m.dup # <<>>
                      THEN <<[key |-> "duplicate_reads", value |-> r.m.dup[1]]>> ELSE <<>>)
                 \o (IF r.m.gc_pct # <<>>
                         THEN <<[key |-> "gc_content", value |-> r.m.gc_pct[1]]>> ELSE <<>>)
                 \o (IF r.m.q20 # <<>>
                         THEN <<[key |-> "quality_reads", value |-> r.m.q20[1]]>> ELSE <<>>)

-----------------------------------------------------------------------------
(* report_checker: the analyzers catch only some exception classes; the    *)
(* others leave the analyzer.  An analysis result carries `raised`, the    *)
(* class of the exception that left it ("" for none).                      *)

rc_Caught == {"JSONDecodeError", "KeyError", "OSError"}

\* report_checker.check_species: the third line decides
rc_check_species(txt, warn_missing) ==
    IF ~txt.exists
        THEN IF warn_missing
                 THEN [text |-> "Species file input_screen.txt not found", flag |-> TRUE]
                 ELSE [text |-> "", flag |-> FALSE]
    ELSE IF Len(txt.lines) >= 3 /\ txt.lines[3].ncells >= 4
        THEN IF ~txt.lines[3].numeric
                 THEN [text |-> "Error processing input_screen.txt species file",
                       flag |-> TRUE]
             ELSE IF txt.lines[3].genome = "Human"
                 THEN [text |-> "", flag |-> FALSE]
             ELSE [text |-> "Most reads mapped to another species", flag |-> TRUE]
    ELSE [text |-> "", flag |-> FALSE]

\* data["Data"]["MappedReads"][0] and the checks after it, up to the first
\* KeyError
rc_BamChecks(s, data) ==
    LET total_reads == Get(data, "TotalReads", 0)
        d == Get(data, "Data", EmptyObj)
        failed(st) == [s |-> Warn(st, "Error processing BAM/CRAM QC report"), raised |-> ""]
    IN IF "MappedReads" \notin DOMAIN d THEN failed(s)
       ELSE IF EmptyArray(d, "MappedReads") THEN [s |-> s, raised |-> "IndexError"]
       ELSE LET reads_unaligned == HundredPct - d["MappedReads"][1]
                s1 == IF reads_unaligned > UnalignedMax
                          THEN WarnCount(s, "Reads unaligned exceeds 40%",
                                         "bam_cram_warnings", "% reads unaligned >40")
                          ELSE s
            IN IF "MappingQualityDistribution" \notin DOMAIN d THEN failed(s1)
               ELSE LET s2 == IF FracGt(ep_low_mapq_percentage(
                                            d["MappingQualityDistribution"], total_reads),
                                        MapqMax)
                                  THEN WarnCount(s1, "Map quality <30 exceeds 20%",
                                                 "bam_cram_warnings",
                                                 "% reads map qual <30 >20")
                                  ELSE s1
                    IN IF "Duplicates" \notin DOMAIN d THEN failed(s2)
                       ELSE IF EmptyArray(d, "Duplicates")
                           THEN [s |-> s2, raised |-> "IndexError"]
                       ELSE [s |-> IF d["Duplicates"][1] > DuplicateMax
                                       THEN WarnCount(s2, "Duplicate reads exceed 20%",
                                                      "bam_cram_warnings", "% duplicate >20")
                                       ELSE s2,
                             raised |-> ""]

rc_analyze_bam_cram(json, counts) ==
    LET s == NewAnalysis(counts)
        loaded == JsonLoad(json)
    IN IF ~Exists(json)
           THEN [s |-> WarnCount(s, "BAM/CRAM QC report not found",
                                 "bam_cram_warnings", "QC report missing"),
                 raised |-> ""]
       ELSE IF loaded.raised # ""
           THEN IF loaded.raised \in rc_Caught
                    THEN [s |-> Warn(s, "Error processing BAM/CRAM QC report"),
                          raised |-> ""]
                    ELSE [s |-> s, raised |-> loaded.raised]
       ELSE IF json.kind # "object"
           \* data.get on an array or a scalar
           THEN [s |-> s, raised |-> "AttributeError"]
       ELSE rc_BamChecks(s, json.obj)

\* the scan of report_checker.analyze_fastq: GC content and duplication only
RECURSIVE rc_ScanFastq(_, _, _)
rc_ScanFastq(lines, i, s) ==
    IF i > Len(lines) THEN [s |-> s, raised |-> ""]
    ELSE LET l == lines[i]
         IN CASE l.kind = "gc_start" ->
                    LET r == ReadRows(lines, SkipPast(lines, i + 1, "gc_hdr"), <<>>)
                    IN IF r.raised # "" THEN [s |-> s, raised |-> r.raised]
                       ELSE rc_ScanFastq(lines, r.next, ep_GcModule(s, r.rows))
              [] l.kind = "dup_start" ->
                    LET j == SkipPast(lines, i + 1, "dedup")
                    IN IF j - 1 <= Len(lines) /\ j - 1 > i /\ lines[j - 1].kind = "dedup"
                           THEN rc_ScanFastq(lines, j, ep_DupLine(s, lines[j - 1]))
                           ELSE rc_ScanFastq(lines, j, s)
              [] OTHER -> rc_ScanFastq(lines, i + 1, s)

rc_analyze_fastq(zip, txt, warn_missing, counts) ==
    LET s == NewAnalysis(counts)
    IN IF zip.kind = "absent"
           THEN [s |-> WarnCount(s, "FASTQ QC report not found",
                                 "fastq_warnings", "QC report missing"),
                 raised |-> ""]
       ELSE IF zip.kind = "bad"
           THEN [s |-> Warn(s, "Error processing FASTQ QC report"), raised |-> ""]
       ELSE IF zip.kind = "nomember"
           THEN [s |-> Warn(s, "fastqc_data.txt not found"), raised |-> ""]
       ELSE LET r == rc_ScanFastq(zip.lines, 1, s)
                sp == rc_check_species(txt, warn_missing)
            IN IF r.raised # "" THEN r
               ELSE [s |-> IF sp.flag
                               THEN WarnCount(r.s, sp.text, "fastq_warnings", "sp not-human")
                               ELSE r.s,
                     raised |-> ""]

-----------------------------------------------------------------------------
(* report_flagger: error_parser's analyzers without the stats file and     *)
(* the variant summary, on per_file_counts tables that are plain dicts     *)
(* with a fixed set of keys.                                               *)

\* report_flagger.analyze_bam_cram: the checks of the summary JSON
rf_analyze_bam_cram(json, counts) ==
    LET s == NewAnalysis(counts)
    IN IF ~Exists(json)
           THEN WarnCount(s, "BAM/CRAM QC report not found",
                          "bam_cram_warnings", "QC report missing")
           ELSE ep_BamJsonChecks(s, json)

\* report_flagger.analyze_fastq: the archive is extracted, the scan is
\* error_parser's line for line, and the species issue is counted under
\* species_issue.replace("_", " "), which for "sp_not_human" is not a key
\* of the table ("sp not-human" is): KeyError, caught by the except
rf_analyze_fastq(zip, txt, warn_missing, counts) ==
    LET s == NewAnalysis(counts)
    IN IF zip.kind = "absent"
           THEN WarnCount(s, "FASTQ QC report not found",
                          "fastq_warnings", "QC report missing")
       ELSE IF zip.kind = "nomember"
           THEN Warn(s, "fastqc_data.txt not found")
       ELSE IF zip.kind # "ok"
           THEN Warn(s, "Error processing FASTQ QC report")
       ELSE LET r == ep_ScanFastq(zip.lines, 1, s)
                sp == ep_check_species(txt, warn_missing)
            IN IF r.raised # ""
                   THEN Warn(r.s, "Error processing FASTQ QC report")
               ELSE IF sp.text = "" THEN r.s
               ELSE IF sp.issue = "sp not human"
                   THEN Warn(Warn(r.s, sp.text), "Error processing FASTQ QC report")
               ELSE WarnCount(r.s, sp.text, "fastq_warnings", sp.issue)

-----------------------------------------------------------------------------
(* process_file: what a worker returns for one identifier.                 *)
(*   raised    the class of the exception that left process_file ("")      *)
(*   output    the diagnostic text                                         *)
(*   counts    per_file_counts                                             *)
(*   file_type "", "FASTQ", "BAM/CRAM" or "VCF"                            *)
(*   rows      report_parser's rows (filetype, flag_key, value)            *)
(*   ran       the analyzers called, in order                              *)

NoResult ==
    [raised |-> "", output |-> <<>>, counts |-> NewPerFileCounts,
     file_type |-> "", rows |-> <<>>, ran |-> <<>>]

\* the ">> <file_name> | <file_type or unknown>" line
Header(file_type) ==
    CASE file_type = "FASTQ" -> ">> file_name | FASTQ"
      [] file_type = "BAM/CRAM" -> ">> file_name | BAM/CRAM"
      [] file_type = "VCF" -> ">> file_name | VCF"
      [] OTHER -> ">> file_name | unknown"

\* the end of process_file's try block
Finish(output, warnings_found, counts, file_type, ran) ==
    [raised |-> "",
     output |-> IF output # <<>> THEN <<Header(file_type)>> \o output ELSE output,
     counts |-> [counts EXCEPT !.warnings_found = warnings_found,
                               !.files_with_warnings =
                                   IF warnings_found THEN @ + 1 ELSE @],
     file_type |-> file_type, rows |-> <<>>, ran |-> ran]

\* process_file's "except Exception" handler
ep_Except(output, counts, file_type, ran) ==
    [raised |-> "",
     output |-> Append(output, "Exception in processing file"),
     counts |-> [counts EXCEPT !.warnings_found = TRUE,
                               !.files_with_warnings = @ + 1],
     file_type |-> file_type, rows |-> <<>>, ran |-> ran]

\* a JSON branch that falls back on the FastQC archive when the summary
\* does not parse
ep_json_report_fallback(a) ==
    LET counts == NewPerFileCounts
        loaded == JsonLoad(a.json)
        failed == loaded.raised = "JSONDecodeError"
        data == IF failed THEN JsonObject(EmptyObj) ELSE a.json
    IN IF loaded.raised \notin {"", "JSONDecodeError"} \/ data.kind = "scalar"
           THEN ep_Except(<<>>, counts, "", <<>>)
       ELSE IF failed /\ a.zip.kind # "absent"
           THEN LET r == ep_analyze_fastq(a.zip, a.txt, TRUE, counts)
                IN Finish(r.output, r.warnings_found, r.counts, "FASTQ",
                          <<"analyze_fastq">>)
       ELSE IF HasKey(data, "VCFVersion")
           THEN LET r == ep_analyze_vcf(a.json, counts)
                IN Finish(r.output, r.warnings_found, r.counts, "VCF",
                          <<"analyze_vcf">>)
       ELSE IF Truthy(data)
           THEN LET r == ep_analyze_bam_cram(a.json, a.stats, a.key, counts)
                IN Finish(r.output, r.warnings_found, r.counts, "BAM/CRAM",
                          <<"analyze_bam_cram">>)
       ELSE Finish(<<"invalid or empty QC report">>, TRUE, counts, "", <<>>)

\* error_parser.process_file, the branch "if json_path.exists()"
ep_json_report(a) ==
    LET counts == NewPerFileCounts
        loaded == JsonLoad(a.json)
        failed == loaded.raised = "JSONDecodeError"
        \* except json.JSONDecodeError: ...; data = {}
        data == IF failed THEN JsonObject(EmptyObj) ELSE a.json
        out0 == IF failed THEN <<"failed to parse JSON QC report">> ELSE <<>>
        counts0 == IF failed THEN [counts EXCEPT !.files_no_qc_report = @ + 1]
                             ELSE counts
    IN IF loaded.raised \notin {"", "JSONDecodeError"}
           THEN ep_Except(<<>>, counts, "", <<>>)
       ELSE IF data.kind = "scalar"
           \* 'VCFVersion' in data raises TypeError
           THEN ep_Except(<<>>, counts, "", <<>>)
       ELSE IF HasKey(data, "VCFVersion")
           THEN LET r == ep_analyze_vcf(a.json, counts0)
                IN Finish(out0 \o r.output, failed \/ r.warnings_found,
                          r.counts, "VCF", <<"analyze_vcf">>)
       ELSE IF Truthy(data)
           THEN LET r == ep_analyze_bam_cram(a.json, a.stats, a.key, counts0)
                IN Finish(out0 \o r.output, failed \/ r.warnings_found,
                          r.counts, "BAM/CRAM", <<"analyze_bam_cram">>)
       ELSE Finish(Append(out0, "invalid or empty QC report"), TRUE,
                   counts0, "", <<>>)

\* a dispatcher that looks for the FastQC archive first
ep_process_file_zip_first(a, warn_missing) ==
    LET counts == NewPerFileCounts
    IN IF a.zip.kind # "absent"
           THEN LET r == ep_analyze_fastq(a.zip, a.txt, warn_missing, counts)
                IN Finish(r.output, r.warnings_found, r.counts, "FASTQ",
                          <<"analyze_fastq">>)
       ELSE IF Exists(a.json)
           THEN ep_json_report(a)
       ELSE Finish(<<"no valid QC report found">>, TRUE,
                   [counts EXCEPT !.files_no_qc_report = @ + 1], "", <<>>)

\* error_parser.process_file
ep_process_file(a, warn_missing) ==
    LET counts == NewPerFileCounts
    IN IF Exists(a.json)
           THEN ep_json_report(a)
       ELSE IF a.zip.kind # "absent"
           THEN LET r == ep_analyze_fastq(a.zip, a.txt, warn_missing, counts)
                IN Finish(r.output, r.warnings_found, r.counts, "FASTQ",
                          <<"analyze_fastq">>)
       ELSE Finish(<<"no valid QC report found">>, TRUE,
                   [counts EXCEPT !.files_no_qc_report = @ + 1], "", <<>>)

\* report_flagger.process_file: a variant summary is only named
rf_process_file(a, warn_missing) ==
    LET counts == NewPerFileCounts
        loaded == JsonLoad(a.json)
        failed == loaded.raised = "JSONDecodeError"
        data == IF failed THEN JsonObject(EmptyObj) ELSE a.json
        out0 == IF failed THEN <<"failed to parse JSON QC report">> ELSE <<>>
        counts0 == IF failed THEN [counts EXCEPT !.files_no_qc_report = @ + 1]
                             ELSE counts
    IN IF Exists(a.json)
           THEN IF loaded.raised \notin {"", "JSONDecodeError"} \/ data.kind = "scalar"
                    THEN ep_Except(<<>>, counts, "", <<>>)
                ELSE IF HasKey(data, "VCFVersion")
                    THEN Finish(out0, failed, counts0, "VCF", <<>>)
                ELSE IF Truthy(data)
                    THEN LET r == rf_analyze_bam_cram(a.json, counts0)
                         IN Finish(out0 \o r.output, failed \/ r.warnings_found,
                                   r.counts, "BAM/CRAM", <<"analyze_bam_cram">>)
                ELSE Finish(Append(out0, "invalid or empty QC report"), TRUE,
                            counts0, "", <<>>)
       ELSE IF a.zip.kind # "absent"
           THEN LET r == rf_analyze_fastq(a.zip, a.txt, warn_missing, counts)
                IN Finish(r.output, r.warnings_found, r.counts, "FASTQ",
                          <<"analyze_fastq">>)
       ELSE Finish(<<"no valid QC report found">>, TRUE,
                   [counts EXCEPT !.files_no_qc_report = @ + 1], "", <<>>)

\* rows.append((egaf, filetype, k, v)) for every (k, v) of an analyzer
RECURSIVE Tagged(_, _)
Tagged(filetype, metrics) ==
    IF metrics = <<>> THEN <<>>
    ELSE <<[filetype |-> filetype, key |-> Head(metrics).key,
            value |-> Head(metrics).value]>>
         \o Tagged(filetype, Tail(metrics))

ErrorRow(key) == <<[filetype |-> "__error__", key |-> key, value |-> Frac(0 - 1, 1)]>>

rp_Result(rws, ran) == [NoResult EXCEPT !.rows = rws, !.ran = ran]

\* the decryption that opens report_parser.process_file: the text, or the
\* empty text (None) when it is not asked for, not possible or fails
rp_dec_stats(a, crypt) ==
    IF crypt /\ a.stats.exists /\ a.key.exists
        THEN LET dec == decrypt_stats_file("report_parser", a.stats, a.key.password)
             IN IF dec.raised # "" THEN <<>> ELSE dec.text
        ELSE <<>>

\* report_parser.process_file
rp_process_file(a, crypt) ==
    LET dec_stats == rp_dec_stats(a, crypt)
        loaded == JsonLoad(a.json)
    IN IF Exists(a.json)
           THEN IF loaded.raised # "" \/ a.json.kind = "scalar"
                    THEN rp_Result(ErrorRow("worker_exception"), <<>>)
                ELSE IF HasKey(a.json, "VCFVersion")
                    THEN rp_Result(Tagged("vcf", rp_analyze_vcf(a.json)),
                                   <<"analyze_vcf">>)
                ELSE rp_Result(Tagged("bamcram", rp_analyze_bamcram(a.json, dec_stats)),
                               <<"analyze_bamcram">>)
       ELSE IF a.zip.kind # "absent"
           THEN rp_Result(Tagged("fastq", rp_analyze_fastq(a.zip)), <<"analyze_fastq">>)
       ELSE rp_Result(ErrorRow("no_qc"), <<>>)

\* report_checker.process_file: no try block, an analyzer's exception
\* leaves it
rc_process_file(a, warn_missing) ==
    LET counts == NewPerFileCounts
    IN IF Exists(a.json)
           THEN LET r == rc_analyze_bam_cram(a.json, counts)
                IN IF r.raised # ""
                       THEN [NoResult EXCEPT !.raised = r.raised,
                                             !.ran = <<"analyze_bam_cram">>]
                       ELSE Finish(r.s.output, r.s.warnings_found, r.s.counts,
                                   "BAM/CRAM", <<"analyze_bam_cram">>)
       ELSE IF a.zip.kind # "absent"
           THEN LET r == rc_analyze_fastq(a.zip, a.txt, warn_missing, counts)
                IN IF r.raised # ""
                       THEN [NoResult EXCEPT !.raised = r.raised,
                                             !.ran = <<"analyze_fastq">>]
                       ELSE Finish(r.s.output, r.s.warnings_found, r.s.counts,
                                   "FASTQ", <<"analyze_fastq">>)
       ELSE Finish(<<"No valid QC report found">>, TRUE,
                   [counts EXCEPT !.files_no_qc_report = @ + 1], "", <<>>)

\* the worker function of the script that runs
process_file(script, a, warn_missing, crypt) ==
    CASE script = "error_parser" -> ep_process_file(a, warn_missing)
      [] script = "report_parser" -> rp_process_file(a, crypt)
      [] script = "report_checker" -> rc_process_file(a, warn_missing)
      [] script = "report_flagger" -> rf_process_file(a, warn_missing)

-----------------------------------------------------------------------------
(* The batch drivers (main).                                               *)

\* error_parser and report_flagger: batch_size = 10000, scaled down for
\* the model
ep_batch_size == 2

\* the counters main initialises
NewSummary ==
    [total_files_checked |-> 0,
     files_with_warnings |-> 0,
     files_no_qc_report |-> 0,
     files_with_qc_report |-> 0,
     files_with_warnings_and_qc |-> 0,
     total_fastq_files |-> 0,
     total_bam_cram_files |-> 0,
     total_vcf_files |-> 0,
     fastq_warnings |-> [k \in FastqKeys |-> 0],
     bam_cram_warnings |-> [k \in BamKeys |-> 0],
     vcf_warnings |-> [k \in VcfKeys |-> 0]]

\* for key in per_file[table]: total[key] += per_file[table][key]
AddCounts(total, per_file) == [k \in DOMAIN total |-> total[k] + per_file[k]]

\* the lines f.write(output) adds to the output file, each with the
\* identifier it was written for
Written(id, output) == [i \in 1..Len(output) |-> [id |-> id, line |-> output[i]]]

\* a merge that counts every unit as a file with a QC report
ep_Merge_all_qc(sm, r) ==
    LET c == r.counts
        with_qc == c.files_no_qc_report >= 0
    IN [sm EXCEPT
           !.total_files_checked = @ + 1,
           !.files_with_warnings = IF c.warnings_found THEN @ + 1 ELSE @,
           !.files_no_qc_report = @ + c.files_no_qc_report,
           !.files_with_qc_report = IF with_qc THEN @ + 1 ELSE @,
           !.files_with_warnings_and_qc =
               IF with_qc /\ c.warnings_found THEN @ + 1 ELSE @,
           !.total_fastq_files = IF r.file_type = "FASTQ" THEN @ + 1 ELSE @,
           !.total_bam_cram_files = IF r.file_type = "BAM/CRAM" THEN @ + 1 ELSE @,
           !.total_vcf_files = IF r.file_type = "VCF" THEN @ + 1 ELSE @,
           !.fastq_warnings = AddCounts(@, c.fastq_warnings),
           !.bam_cram_warnings = AddCounts(@, c.bam_cram_warnings),
           !.vcf_warnings = AddCounts(@, c.vcf_warnings)]

\* the body of error_parser's "for future in as_completed(futures)"
ep_Merge(sm, r) ==
    LET c == r.counts
        with_qc == c.files_no_qc_report = 0
    IN [sm EXCEPT
           !.total_files_checked = @ + 1,
           !.files_with_warnings = IF c.warnings_found THEN @ + 1 ELSE @,
           !.files_no_qc_report = @ + c.files_no_qc_report,
           !.files_with_qc_report = IF with_qc THEN @ + 1 ELSE @,
           !.files_with_warnings_and_qc =
               IF with_qc /\ c.warnings_found THEN @ + 1 ELSE @,
           !.total_fastq_files = IF r.file_type = "FASTQ" THEN @ + 1 ELSE @,
           !.total_bam_cram_files = IF r.file_type = "BAM/CRAM" THEN @ + 1 ELSE @,
           !.total_vcf_files = IF r.file_type = "VCF" THEN @ + 1 ELSE @,
           !.fastq_warnings = AddCounts(@, c.fastq_warnings),
           !.bam_cram_warnings = AddCounts(@, c.bam_cram_warnings),
           !.vcf_warnings = AddCounts(@, c.vcf_warnings)]

\* the same loop body in report_flagger: a variant summary is not a file
\* with a QC report, and there is no table of variant warnings
rf_Merge(sm, r) ==
    LET c == r.counts
        with_qc == c.files_no_qc_report = 0 /\ r.file_type # "VCF"
    IN [sm EXCEPT
           !.total_files_checked = @ + 1,
           !.files_with_warnings = IF c.warnings_found THEN @ + 1 ELSE @,
           !.files_no_qc_report = @ + c.files_no_qc_report,
           !.files_with_qc_report = IF with_qc THEN @ + 1 ELSE @,
           !.files_with_warnings_and_qc =
               IF with_qc /\ c.warnings_found THEN @ + 1 ELSE @,
           !.total_fastq_files = IF r.file_type = "FASTQ" THEN @ + 1 ELSE @,
           !.total_bam_cram_files = IF r.file_type = "BAM/CRAM" THEN @ + 1 ELSE @,
           !.total_vcf_files = IF r.file_type = "VCF" THEN @ + 1 ELSE @,
           !.fastq_warnings = AddCounts(@, c.fastq_warnings),
           !.bam_cram_warnings = AddCounts(@, c.bam_cram_warnings)]

\* the same loop body in report_checker
rc_Merge(sm, r) ==
    LET c == r.counts
    IN [sm EXCEPT
           !.total_files_checked = @ + 1,
           !.files_with_warnings = IF c.warnings_found THEN @ + 1 ELSE @,
           !.files_no_qc_report = @ + c.files_no_qc_report,
           !.fastq_warnings = AddCounts(@, c.fastq_warnings),
           !.bam_cram_warnings = AddCounts(@, c.bam_cram_warnings)]

\* the rows one future adds in report_parser
rp_Collect(id, r) ==
    LET got == IF r.raised # "" THEN ErrorRow("future_exception") ELSE r.rows
    IN [i \in 1..Len(got) |-> [id |-> id, row |-> got[i]]]

\* every unit of the list in a single batch
BatchSize_all(script, n, nthreads) == n

\* chunks(args_list, batch_size): the size of a batch of the script
BatchSize(script, n, nthreads) ==
    CASE script \in {"error_parser", "report_flagger"} -> ep_batch_size
      [] script = "report_parser" -> nthreads * 2
      [] script = "report_checker" -> n

Min(x, y) == IF x <= y THEN x ELSE y

InBatch(id) == \E i \in 1..Len(batch) : batch[i] = id
BatchMerged == \A i \in 1..Len(batch) : fut[batch[i]] = "merged"
Running == {id \in DOMAIN fut : fut[id] = "running"}

\* futures = [executor.submit(process_file, arg) for arg in batch]
Submit ==
    /\ pc = "batches"
    /\ BatchMerged
    /\ rest # <<>>
    /\ LET k == Min(Len(rest), BatchSize(impl, Len(egaf_list), threads))
       IN /\ batch' = SubSeq(rest, 1, k)
          /\ rest' = SubSeq(rest, k + 1, Len(rest))
          /\ fut' = [id \in DOMAIN fut |->
                        IF \E i \in 1..k : rest[i] = id THEN "queued" ELSE fut[id]]
    /\ UNCHANGED <<impl, egaf_list, archive, warn_missing_file, include_crypt,
                   threads, pc, res, summary, out_file, rows, logged>>

\* a free worker process of the pool takes a queued unit
WorkerStart(id) ==
    /\ fut[id] = "queued"
    /\ Cardinality(Running) < threads
    /\ fut' = [fut EXCEPT ![id] = "running"]
    /\ UNCHANGED <<impl, egaf_list, archive, warn_missing_file, include_crypt,
                   threads, pc, batch, rest, res, summary, out_file, rows, logged>>

\* a worker that adds its counts to the counters of main itself
WorkerFinish_shared(id) ==
    /\ fut[id] = "running"
    /\ fut' = [fut EXCEPT ![id] = "done"]
    /\ res' = [res EXCEPT ![id] =
                  process_file(impl, archive[id], warn_missing_file, include_crypt)]
    /\ summary' = [summary EXCEPT
                       !.fastq_warnings = AddCounts(@, res'[id].counts.fastq_warnings)]
    /\ UNCHANGED <<impl, egaf_list, archive, warn_missing_file, include_crypt,
                   threads, pc, batch, rest, out_file, rows, logged>>

\* the worker runs process_file and the future completes
WorkerFinish(id) ==
    /\ fut[id] = "running"
    /\ fut' = [fut EXCEPT ![id] = "done"]
    /\ res' = [res EXCEPT ![id] =
                  process_file(impl, archive[id], warn_missing_file, include_crypt)]
    /\ UNCHANGED <<impl, egaf_list, archive, warn_missing_file, include_crypt,
                   threads, pc, batch, rest, summary, out_file, rows, logged>>

\* as_completed yields a finished future and the driver merges its result
Merge(id) ==
    /\ pc = "batches"
    /\ fut[id] = "done"
    /\ fut' = [fut EXCEPT ![id] = "merged"]
    /\ CASE impl = "report_parser" ->
                /\ rows' = rows \o rp_Collect(id, res[id])
                /\ UNCHANGED <<summary, out_file, logged>>
         [] res[id].raised # "" ->
                \* future.result() raises: except Exception: logging.error(...)
                /\ logged' = Append(logged, id)
                /\ UNCHANGED <<summary, out_file, rows>>
         [] OTHER ->
                /\ summary' = CASE impl = "error_parser" -> ep_Merge(summary, res[id])
                                 [] impl = "report_flagger" -> rf_Merge(summary, res[id])
                                 [] OTHER -> rc_Merge(summary, res[id])
                /\ out_file' = out_file \o Written(id, res[id].output)
                /\ UNCHANGED <<rows, logged>>
    /\ UNCHANGED <<impl, egaf_list, archive, warn_missing_file, include_crypt,
                   threads, pc, batch, rest, res>>

\* report_parser's serial path: rows.extend(process_file((eg, include_crypt)))
Serial ==
    /\ pc = "serial"
    /\ rest # <<>>
    /\ LET id == Head(rest)
           r == process_file(impl, archive[id], warn_missing_file, include_crypt)
       IN /\ res' = [res EXCEPT ![id] = r]
          /\ fut' = [fut EXCEPT ![id] = "merged"]
          /\ rows' = rows \o rp_Collect(id, r)
    /\ rest' = Tail(rest)
    /\ UNCHANGED <<impl, egaf_list, archive, warn_missing_file, include_crypt,
                   threads, pc, batch, summary, out_file, logged>>

\* the loops are over: the summary is printed / the CSV is written
Done ==
    /\ pc \in {"batches", "serial"}
    /\ rest = <<>>
    /\ BatchMerged
    /\ pc' = "finished"
    /\ UNCHANGED <<impl, egaf_list, archive, warn_missing_file, include_crypt,
                   threads, batch, rest, fut, res, summary, out_file, rows, logged>>

Next ==
    \/ Submit
    \/ \E id \in DOMAIN fut : WorkerStart(id)
    \/ \E id \in DOMAIN fut : WorkerFinish(id)
    \/ \E id \in DOMAIN fut : Merge(id)
    \/ Serial
    \/ Done

-----------------------------------------------------------------------------
(* The inputs explored.  A ratio array holds one ratio or is empty, a       *)
(* distribution holds (quality, count) pairs; any field may be absent and  *)
(* a file may be unreadable.                                               *)

\* the object that holds the keys of S, with the values of f
Pick(f, S) == [k \in S |-> f[k]]

MappedReadsVals == {<<>>, <<5999>>, <<6000>>, <<10000>>}
DistVals == { <<>>,
              << <<0, 20>>, <<60, 80>> >>,
              << <<29, 21>>, <<30, 79>> >> }
DuplicatesVals == {<<>>, <<2000>>, <<2001>>}
TotalReadsVals == {0, 100, 200}

DataSections ==
    { Pick([MappedReads |-> m, MappingQualityDistribution |-> q, Duplicates |-> d], S) :
        m \in MappedReadsVals, q \in DistVals, d \in DuplicatesVals,
        S \in SUBSET {"MappedReads", "MappingQualityDistribution", "Duplicates"} }

\* summaries of aligned reads: no VCFVersion
BamObjects ==
    { Pick([TotalReads |-> t, Data |-> d], S) :
        t \in TotalReadsVals, d \in DataSections,
        S \in SUBSET {"TotalReads", "Data"} }
    \cup { [InsertSize |-> 300] }

VcfDataSections == { EmptyObj, [TsTvRatio |-> 250], [TsTvRatio |-> 250, AvgQuality |-> 3500] }

\* summaries of variant calls: VCFVersion is present
VcfObjects ==
    { Pick([VCFVersion |-> 42, TsTvRatio |-> t, AvgQuality |-> q, Data |-> d], S \cup {"VCFVersion"}) :
        t \in {189, 190, 330, 331}, q \in {2999, 3000}, d \in VcfDataSections,
        S \in SUBSET {"TsTvRatio", "AvgQuality", "Data"} }

BrokenJson == { JsonFile(k) : k \in {"truncated", "unparseable", "scalar", "array"} }

\* stats.txt.openssl.gz and its key file
GcLine(prefix, parts, gc, n) == [prefix |-> prefix, parts |-> parts, gc |-> gc, n |-> n]
\* the key file: the password is what .strip() leaves of it
Password == [sym |-> "password"]
Salt == [sym |-> "salt"]
NoKey == [exists |-> FALSE, password |-> [sym |-> "none"]]
KeyOf(password) == [exists |-> TRUE, password |-> password]
KeyFiles == { NoKey, KeyOf(Password), KeyOf([sym |-> "other"]) }

\* the text of the lines, one "GCF40.00<tab>10" (two parts) or
\* "GCF<tab>40.00<tab>10" (three parts) each
FormatStats(lines) ==
    LET RECURSIVE str(_)
        str(n) == IF n < 10 THEN <<Ord.zero + n>>
                  ELSE str(n \div 10) \o <<Ord.zero + (n % 10)>>
        name(l) == IF l.prefix = "GCF" THEN <<Ord.G, Ord.C, Ord.F>>
                   ELSE IF l.prefix = "GCL" THEN <<Ord.G, Ord.C, Ord.L>>
                   ELSE IF l.prefix = "GC" THEN <<Ord.G, Ord.C>>
                   ELSE <<Ord.S, Ord.N>>
        gc(l) == str(l.gc \div 100)
                 \o <<Ord.dot, Ord.zero + ((l.gc % 100) \div 10), Ord.zero + (l.gc % 10)>>
        RECURSIVE text(_)
        text(ls) ==
            IF ls = <<>> THEN <<>>
            ELSE LET l == Head(ls)
                 IN name(l) \o (IF l.parts = 2 THEN <<>> ELSE <<Ord.tab>>) \o gc(l)
                    \o <<Ord.tab>> \o str(l.n) \o <<Ord.nl>> \o text(Tail(ls))
    IN text(lines)

\* the key and IV that "openssl enc -md md5" derives
EVP_BytesToKey(password, salt) ==
    LET d1 == Md5(<<password, salt>>)
        d2 == Md5(<<d1, password, salt>>)
        d3 == Md5(<<d2, password, salt>>)
    IN KeyIv(<<d1, d2, d3>>)

\* PKCS7: one to block_size bytes, each the number of bytes added
Pkcs7(bytes) ==
    LET p == block_size - (Len(bytes) % block_size)
    IN bytes \o [i \in 1..p |-> p]

\* bytes filled up to whole blocks with the byte p
Filled(bytes, p) ==
    bytes \o [i \in 1..(block_size - (Len(bytes) % block_size)) |-> p]

\* the file of a buffer of whole blocks sealed under a key and IV; noise is
\* the byte a block reads as when it is opened with another key or IV
Stream(magic, k, padded, noise) ==
    [exists |-> TRUE, gz |-> TRUE, b64 |-> TRUE,
     raw |-> [magic |-> magic, salt |-> Salt, extra |-> 0,
              blocks |-> CbcEncrypt(k.key, Opaque(k.iv[1]),
                             [i \in 1..(Len(padded) \div block_size) |->
                                 [lit |-> SubSeq(padded, (i - 1) * block_size + 1,
                                                 i * block_size),
                                  opq |-> {}]])],
     noise |-> noise]

NoStats ==
    [exists |-> FALSE, gz |-> FALSE, b64 |-> FALSE,
     raw |-> [magic |-> "", salt |-> Salt, extra |-> 0, blocks |-> <<>>],
     noise |-> 0]

\* the lines as openssl encrypts them, and as error_parser's own key
\* derivation would
StatsOf(lines) ==
    Stream("Salted__", EVP_BytesToKey(Password, Salt), Pkcs7(FormatStats(lines)), 200)
StatsFor(lines) ==
    Stream("Salted__", ep_evp_bytes_to_key(Password, Salt), Pkcs7(FormatStats(lines)), 200)

TwoLines == << GcLine("GCF", 2, 4000, 10), GcLine("GCL", 2, 5000, 10) >>
StatsTexts ==
    { <<>>,
      TwoLines,
      << GcLine("GCF", 2, 3000, 10), GcLine("other", 2, 9000, 10) >>,
      << GcLine("GCF", 3, 6000, 10), GcLine("GC", 3, 5000, 10) >>,
      << GcLine("GCF", 2, 5500, 0) >> }

StatsFiles ==
    { NoStats }
    \cup { StatsOf(t) : t \in StatsTexts }
    \cup { StatsFor(t) : t \in StatsTexts }
    \* a first block that reads as letters under another IV
    \cup { [StatsOf(TwoLines) EXCEPT !.noise = Ord.C] }
    \* not gzip, not base64, not salted, cut short, not whole blocks, empty
    \cup { [StatsOf(TwoLines) EXCEPT !.gz = FALSE],
           [StatsOf(TwoLines) EXCEPT !.b64 = FALSE],
           [StatsOf(TwoLines) EXCEPT !.raw.magic = "Salted_x"],
           [StatsOf(TwoLines) EXCEPT !.raw.magic = "Salt", !.raw.blocks = <<>>],
           [StatsOf(TwoLines) EXCEPT !.raw.extra = 5],
           [StatsOf(TwoLines) EXCEPT !.raw.blocks = <<>>] }
    \* buffers that end in a byte other than their PKCS7 padding
    \cup { Stream("Salted__", k, Filled(FormatStats(TwoLines), p), 200) :
             k \in { EVP_BytesToKey(Password, Salt),
                     ep_evp_bytes_to_key(Password, Salt) },
             p \in {0, 3, 40} }

\* fastqc_data.txt
Line(kind, a, b) == [kind |-> kind, a |-> a, b |-> b]
Mark(kind) == Line(kind, 0, 0)
GcModuleLines(rws) == <<Mark("gc_start"), Mark("gc_hdr")>> \o rws \o <<Mark("end")>>
DupModuleLines(dedup) ==
    <<Mark("dup_start"), Line("dedup", dedup, 0), Mark("other"), Mark("end")>>
QualModuleLines(rws) == <<Mark("qual_start"), Mark("qual_hdr")>> \o rws \o <<Mark("end")>>
BasicModuleLines(gc) == <<Mark("basic_start"), Mark("other"), Line("pct_gc", gc, 0), Mark("end")>>

FastqReports ==
    { \* GC 60% in range, deduplicated 70%
      GcModuleLines(<<Line("row", 4000, 600), Line("row", 7000, 400)>>) \o DupModuleLines(7000),
      \* the duplication module twice
      DupModuleLines(7000) \o DupModuleLines(7000),
      DupModuleLines(8000),
      \* a GC module whose counts sum to zero
      GcModuleLines(<<Line("row", 4000, 0)>>),
      \* quality rows, 30% below 20
      BasicModuleLines(4800)
          \o QualModuleLines(<<Line("row", 1000, 30), Line("row", 3500, 70)>>),
      \* a GC module without >>END_MODULE before the next module
      <<Mark("gc_start"), Mark("gc_hdr"), Line("row", 4000, 10)>> \o DupModuleLines(7000),
      \* the share of GC rows in 35-55 at and next to the two ends of the range
      GcModuleLines(<<Line("row", 3500, 350), Line("row", 3499, 650)>>),
      GcModuleLines(<<Line("row", 5500, 550), Line("row", 5501, 450)>>),
      GcModuleLines(<<Line("row", 3500, 349), Line("row", 6000, 651)>>),
      GcModuleLines(<<Line("row", 5500, 551), Line("row", 2000, 449)>>),
      \* 20% of the quality counts exactly below 20, and just above 20%; a
      \* quality module whose counts sum to zero
      QualModuleLines(<<Line("row", 1999, 20), Line("row", 2000, 10),
                        Line("row", 2999, 30), Line("row", 3000, 40)>>),
      QualModuleLines(<<Line("row", 1999, 21), Line("row", 2000, 79)>>),
      QualModuleLines(<<Line("row", 1000, 0)>>),
      \* a GC module without its "#GC Content" header, and a duplication
      \* module without its "#Total Deduplicated Percentage" line, each
      \* closed by >>END_MODULE and followed by another module
      <<Mark("gc_start"), Line("row", 4000, 10), Mark("end")>> \o DupModuleLines(7000),
      <<Mark("dup_start"), Mark("other"), Mark("end")>>
          \o QualModuleLines(<<Line("row", 1000, 30), Line("row", 3500, 70)>>),
      <<>> }

NoZip == [kind |-> "absent", lines |-> <<>>]
ZipOf(lines) == [kind |-> "ok", lines |-> lines]
ZipFiles ==
    { NoZip, [kind |-> "bad", lines |-> <<>>], [kind |-> "nomember", lines |-> <<>>] }
    \cup { ZipOf(r) : r \in FastqReports }

\* input_screen(_v2).txt
SpLine(cols, genome, one_hit, pct, numeric, ncells) ==
    [cols |-> cols, genome |-> genome, one_hit |-> one_hit, pct |-> pct,
     numeric |-> numeric, ncells |-> ncells]
SpTitle == SpLine({}, "#Fastq_screen", 0, 0, FALSE, 1)
SpHeader == SpLine(SpeciesColumns, "Genome", 0, 0, FALSE, 12)
SpRow(genome, one_hit, pct) == SpLine({}, genome, one_hit, pct, TRUE, 12)
NoTxt == [exists |-> FALSE, lines |-> <<>>]
TxtOf(lines) == [exists |-> TRUE, lines |-> lines]
TxtFiles ==
    { NoTxt,
      TxtOf(<<SpTitle, SpHeader, SpRow("Human", 50, 1000), SpRow("Mouse", 10, 200)>>),
      TxtOf(<<SpTitle, SpHeader, SpRow("Mouse", 100, 6000), SpRow("Human", 50, 3000)>>),
      TxtOf(<<SpTitle, SpHeader, SpRow("Human", 50, 300)>>),
      TxtOf(<<SpTitle, SpLine({"Genome"}, "Genome", 0, 0, FALSE, 12), SpRow("Human", 50, 1000)>>),
      TxtOf(<<SpTitle, SpHeader>>),
      \* the largest count on a later row, equal counts, and the closing
      \* lines of the report (a blank line and "%Hit_no_genomes")
      TxtOf(<<SpTitle, SpHeader, SpRow("Human", 50, 3000), SpRow("Mouse", 100, 6000)>>),
      TxtOf(<<SpTitle, SpHeader, SpRow("Mouse", 50, 1000), SpRow("Human", 50, 1000)>>),
      TxtOf(<<SpTitle, SpHeader, SpRow("Human", 50, 500), SpRow("Human", 50, 100)>>),
      TxtOf(<<SpTitle, SpHeader, SpRow("Mouse", 10, 200), SpRow("Human", 50, 1000),
              SpLine({}, "", 0, 0, FALSE, 1), SpLine({}, "%Hit_no_genomes", 0, 0, FALSE, 1)>>),
      \* the column names one line further down
      TxtOf(<<SpTitle, SpTitle, SpHeader, SpRow("Human", 50, 1000)>>),
      \* a title and a header without the columns, and nothing else
      TxtOf(<<SpTitle, SpLine({"Genome"}, "Genome", 0, 0, FALSE, 12)>>) }

Artifacts(json, zip, stats, key, txt) ==
    [json |-> json, zip |-> zip, stats |-> stats, key |-> key, txt |-> txt]

SomeBam == [TotalReads |-> 100,
            Data |-> [MappedReads |-> <<5999>>,
                      MappingQualityDistribution |-> << <<0, 20>>, <<60, 80>> >>,
                      Duplicates |-> <<2001>>]]
SomeVcf == [VCFVersion |-> 42, TsTvRatio |-> 189, AvgQuality |-> 3000]
SomeFastq == ZipOf(DupModuleLines(7000))
HumanTxt == TxtOf(<<SpTitle, SpHeader, SpRow("Human", 50, 1000), SpRow("Mouse", 10, 200)>>)

\* the artifact sets of the single-identifier runs
UnitArtifacts ==
    \* aligned-read summaries in full, beside a FastQC archive or not
    { Artifacts(JsonObject(o), z, st, KeyOf(Password), NoTxt) :
        o \in BamObjects, z \in {NoZip}, st \in {NoStats, StatsOf(<<GcLine("GCF", 2, 4000, 10)>>)} }
    \* the stats stream in full
    \cup { Artifacts(JsonObject(SomeBam), NoZip, st, k, NoTxt) :
             st \in StatsFiles, k \in KeyFiles }
    \* variant summaries in full
    \cup { Artifacts(JsonObject(o), z, NoStats, NoKey, NoTxt) :
             o \in VcfObjects, z \in {NoZip, SomeFastq} }
    \* every kind of summary file beside every kind of archive
    \cup { Artifacts(j, z, NoStats, NoKey, t) :
             j \in BrokenJson \cup {JsonAbsent, JsonObject(EmptyObj),
                                    JsonObject(SomeBam), JsonObject(SomeVcf)},
             z \in ZipFiles, t \in {NoTxt, HumanTxt} }
    \* FastQC archives with every species report
    \cup { Artifacts(JsonAbsent, z, NoStats, NoKey, t) :
             z \in ZipFiles, t \in TxtFiles }

Scripts == {"error_parser", "report_parser", "report_checker", "report_flagger"}

\* the state main starts from, once the arguments and the archive are fixed
InitDriver ==
    /\ pc = IF impl = "report_parser" /\ (threads = 0 \/ Len(egaf_list) = 1)
                THEN "serial" ELSE "batches"
    /\ batch = <<>>
    /\ rest = egaf_list
    /\ fut = [id \in DOMAIN archive |-> "none"]
    /\ res = [id \in DOMAIN archive |-> NoResult]
    /\ summary = NewSummary
    /\ out_file = <<>>
    /\ rows = <<>>
    /\ logged = <<>>

\* one identifier, every artifact set
InitUnit ==
    /\ impl \in Scripts
    /\ egaf_list = <<1>>
    /\ archive \in [{1} -> UnitArtifacts]
    /\ warn_missing_file \in BOOLEAN
    /\ include_crypt \in BOOLEAN
    /\ threads = 1
    /\ InitDriver

SpecUnit == InitUnit /\ [][Next]_vars

\* the batch runs: up to MaxIds identifiers, up to MaxThreads workers
MaxIds == 3
MaxThreads == 2

\* the artifact sets of the batch runs: an aligned-read summary with
\* warnings, a FastQC report with the duplication module once and twice, a
\* summary gzip cannot read to its end, and no artifact at all
BatchArtifacts ==
    { Artifacts(JsonObject(SomeBam), NoZip, NoStats, NoKey, NoTxt),
      Artifacts(JsonAbsent, SomeFastq, NoStats, NoKey, HumanTxt),
      Artifacts(JsonAbsent, ZipOf(DupModuleLines(7000) \o DupModuleLines(7000)),
                NoStats, NoKey, HumanTxt),
      Artifacts(JsonFile("truncated"), NoZip, NoStats, NoKey, NoTxt),
      Artifacts(JsonAbsent, NoZip, NoStats, NoKey, NoTxt) }

\* the identifiers of the file given with --file, with the default options
Init ==
    /\ impl \in Scripts
    /\ \E n \in 1..MaxIds :
           /\ egaf_list = [i \in 1..n |-> i]
           /\ archive \in [1..n -> BatchArtifacts]
    /\ warn_missing_file = TRUE
    /\ include_crypt = FALSE
    /\ threads \in (IF impl = "report_parser" THEN 0..MaxThreads ELSE 1..MaxThreads)
    /\ InitDriver

Spec == Init /\ [][Next]_vars

-----------------------------------------------------------------------------
(* The properties checked.                                                 *)

\* the worker of the identifier has returned (or raised)
Completed(id) == fut[id] \in {"done", "merged"}

InSeq(x, seq) == \E i \in 1..Len(seq) : seq[i] = x

\* the analyzer was called for the unit
Ran(r, analyzer) == InSeq(analyzer, r.ran)

\* the unit's record that no QC artifact exists
NoQcRecord(r) ==
    \/ InSeq("no valid QC report found", r.output)
    \/ InSeq("No valid QC report found", r.output)
    \/ r.rows = ErrorRow("no_qc")

\* C1: dispatch precedence.  In every script, for every identifier whose
\* worker has returned: the fastq analyzer has run exactly when the summary
\* JSON is absent and the FastQC archive is present (so never when the JSON
\* is present, whatever else exists); with both absent no analyzer has run
\* and the unit carries the no-QC error.
C1_Precedence ==
    \A id \in DOMAIN fut :
        Completed(id) =>
            LET a == archive[id]
                r == res[id]
            IN /\ Exists(a.json) => ~Ran(r, "analyze_fastq")
               /\ Ran(r, "analyze_fastq") <=> (~Exists(a.json) /\ a.zip.kind # "absent")
               /\ (~Exists(a.json) /\ a.zip.kind = "absent")
                      => (r.ran = <<>> /\ NoQcRecord(r))

\* a summary JSON and a FastQC archive both exist, and the summary analyzer
\* has run
C1_Witness ==
    \E id \in DOMAIN fut :
        /\ Completed(id)
        /\ impl = "error_parser"
        /\ archive[id].json.kind = "object"
        /\ archive[id].zip.kind = "ok"
        /\ res[id].ran = <<"analyze_bam_cram">>

\* the unit's record that the summary JSON could not be read
ParseErrorRecord(r) ==
    CASE impl = "error_parser" ->
             \/ InSeq("failed to parse JSON QC report", r.output)
             \/ InSeq("Exception in processing file", r.output)
      [] impl = "report_parser" -> r.rows = ErrorRow("worker_exception")
      [] OTHER -> FALSE

\* C2: in error_parser and report_parser, when the summary JSON exists but
\* cannot be parsed (json.load rejects it, or gzip cannot read it to its
\* end), the unit carries an error record, no analyzer has run and the
\* FastQC archive has not been used, whether or not it exists.
C2_UnparseableStops ==
    \A id \in DOMAIN fut :
        (/\ Completed(id)
         /\ impl \in {"error_parser", "report_parser"}
         /\ archive[id].json.kind \in {"unparseable", "truncated"})
            => (/\ res[id].ran = <<>>
                /\ res[id].raised = ""
                /\ ParseErrorRecord(res[id])
                /\ res[id].file_type # "FASTQ")

\* an unparseable summary beside a readable FastQC archive has been processed
C2_Witness ==
    \E id \in DOMAIN fut :
        /\ Completed(id)
        /\ impl = "error_parser"
        /\ archive[id].json.kind = "unparseable"
        /\ archive[id].zip.kind = "ok"
        /\ InSeq("failed to parse JSON QC report", res[id].output)

\* the classification the dispatcher gave the unit: "vcf", "bamcram" or ""
Classified(r) ==
    CASE impl = "error_parser" ->
             (CASE r.file_type = "VCF" -> "vcf"
                [] r.file_type = "BAM/CRAM" -> "bamcram"
                [] OTHER -> "")
      [] OTHER ->
             (CASE r.ran = <<"analyze_vcf">> -> "vcf"
                [] r.ran = <<"analyze_bamcram">> -> "bamcram"
                [] OTHER -> "")

\* C3 as stated: in error_parser and report_parser every parsed summary
\* object, the empty one included, is classified vcf when it holds
\* VCFVersion and bamcram otherwise.
C3_Original ==
    \A id \in DOMAIN fut :
        (/\ Completed(id)
         /\ impl \in {"error_parser", "report_parser"}
         /\ archive[id].json.kind = "object")
            => Classified(res[id]) =
                   IF "VCFVersion" \in DOMAIN archive[id].json.obj
                       THEN "vcf" ELSE "bamcram"

\* C3 amended: every parsed summary object that holds VCFVersion is
\* classified vcf; one that does not is classified bamcram, except that
\* error_parser gives the empty object no classification: it reports
\* "invalid or empty QC report" and runs no analyzer.
C3_Classification ==
    \A id \in DOMAIN fut :
        (/\ Completed(id)
         /\ impl \in {"error_parser", "report_parser"}
         /\ archive[id].json.kind = "object")
            => LET o == archive[id].json.obj
                   r == res[id]
               IN IF "VCFVersion" \in DOMAIN o
                      THEN Classified(r) = "vcf"
                  ELSE IF impl = "error_parser" /\ DOMAIN o = {}
                      THEN /\ Classified(r) = ""
                           /\ r.ran = <<>>
                           /\ InSeq("invalid or empty QC report", r.output)
                  ELSE Classified(r) = "bamcram"

\* error_parser has processed an empty summary object
C3_Witness ==
    \E id \in DOMAIN fut :
        /\ Completed(id)
        /\ impl = "error_parser"
        /\ archive[id].json.kind = "object"
        /\ DOMAIN archive[id].json.obj = {}
        /\ res[id].file_type = ""

\* the lines written to the output file for the identifier
WrittenFor(id) == { out_file[i].line : i \in { j \in 1..Len(out_file) : out_file[j].id = id } }

\* the error record of a unit whose processing failed, as the driver holds it
ErrorRecordOf(id) ==
    IF impl = "report_parser"
        THEN \E i \in 1..Len(rows) :
                 rows[i].id = id /\ rows[i].row.filetype = "__error__"
        ELSE WrittenFor(id) \cap {"Exception in processing file",
                                  "Error processing BAM/CRAM QC report",
                                  "failed to parse JSON QC report"} # {}

\* the summary JSON of the unit cannot be read to its end
Faulty(id) == archive[id].json.kind = "truncated"

\* C4 as stated: when a batch is over, every unit whose processing raised
\* has its error record in the driver's output, no exception has left a
\* unit for the driver, and every unit of the batch has been merged.
C4_Original ==
    pc = "finished" =>
        /\ \A id \in DOMAIN archive : Faulty(id) => ErrorRecordOf(id)
        /\ \A id \in DOMAIN archive : res[id].raised = ""
        /\ logged = <<>>
        /\ \A id \in DOMAIN archive : fut[id] = "merged"
        /\ impl # "report_parser" => summary.total_files_checked = Len(egaf_list)

\* the identifiers that raised the warning key of the table at least once
Raising(table, key) == { id \in DOMAIN archive : res[id].counts[table][key] > 0 }

\* C5 as stated: when error_parser's run is over, whatever the order in
\* which the futures completed and whatever the number of workers, the
\* count of every (category, flagKey) equals the number of identifiers that
\* raised it.
C5_Original ==
    (impl = "error_parser" /\ pc = "finished") =>
        /\ \A k \in FastqKeys :
               summary.fastq_warnings[k] = Cardinality(Raising("fastq_warnings", k))
        /\ \A k \in BamKeys :
               summary.bam_cram_warnings[k] = Cardinality(Raising("bam_cram_warnings", k))
        /\ \A k \in VcfKeys :
               summary.vcf_warnings[k] = Cardinality(Raising("vcf_warnings", k))

\* C6 as stated: in error_parser an identifier adds at most 1 to the count
\* of a (category, flagKey): its per-file counts are at most 1, and no
\* summary count exceeds the number of identifiers merged.
C6_Original ==
    impl = "error_parser" =>
        /\ \A id \in DOMAIN fut :
               Completed(id) =>
                   /\ \A k \in FastqKeys : res[id].counts.fastq_warnings[k] <= 1
                   /\ \A k \in BamKeys : res[id].counts.bam_cram_warnings[k] <= 1
                   /\ \A k \in VcfKeys : res[id].counts.vcf_warnings[k] <= 1
        /\ \A k \in FastqKeys : summary.fastq_warnings[k] <= summary.total_files_checked
        /\ \A k \in BamKeys : summary.bam_cram_warnings[k] <= summary.total_files_checked
        /\ \A k \in VcfKeys : summary.vcf_warnings[k] <= summary.total_files_checked

\* the Data section of the unit's summary object
DataOf(id) == Get(archive[id].json.obj, "Data", EmptyObj)

\* the unit's summary object went through the BAM/CRAM analyzer
BamAnalyzed(id) ==
    /\ Completed(id)
    /\ archive[id].json.kind = "object"
    /\ \/ Ran(res[id], "analyze_bam_cram")
       \/ Ran(res[id], "analyze_bamcram")

\* C7: for every summary error_parser analyzes as BAM/CRAM that holds a
\* mapped ratio, the unaligned warning is emitted, and counted once, exactly
\* when 100 - ratio*100 > 40.00 (40.00 itself does not warn); the duplicates
\* warning is emitted only for a value*100 above 20.00, and exactly then
\* when that test is reached.  report_parser reports 100 - ratio*100 as the
\* unaligned metric.
C7_UnalignedStrict ==
    \A id \in DOMAIN fut :
        BamAnalyzed(id) =>
            LET d == DataOf(id)
                r == res[id]
                has_ratio == "MappedReads" \in DOMAIN d /\ d["MappedReads"] # <<>>
                has_dup == "Duplicates" \in DOMAIN d /\ d["Duplicates"] # <<>>
                unaligned_warned == InSeq("reads unaligned exceeds 40%", r.output)
                dup_warned == InSeq("duplicate reads exceed 20%", r.output)
            IN /\ (impl = "error_parser" /\ has_ratio) =>
                      /\ unaligned_warned <=> (10000 - d["MappedReads"][1] > 4000)
                      /\ r.counts.bam_cram_warnings["% reads unaligned >40"]
                             = IF 10000 - d["MappedReads"][1] > 4000 THEN 1 ELSE 0
               /\ (impl = "error_parser" /\ dup_warned) =>
                      (has_dup /\ d["Duplicates"][1] > 2000)
               /\ (impl = "error_parser" /\ has_ratio /\ has_dup) =>
                      (dup_warned <=> d["Duplicates"][1] > 2000)
               /\ (impl = "report_parser" /\ has_ratio) =>
                      InSeq([filetype |-> "bamcram", key |-> "unaligned",
                             value |-> Frac(10000 - d["MappedReads"][1], 1)], r.rows)

\* error_parser has analyzed a summary whose ratio is 0.60 and whose
\* duplicates value is 0.20, and has warned about neither
C7_Witness ==
    \E id \in DOMAIN fut :
        /\ BamAnalyzed(id)
        /\ impl = "error_parser"
        /\ "MappedReads" \in DOMAIN DataOf(id)
        /\ DataOf(id)["MappedReads"] = <<6000>>
        /\ "Duplicates" \in DOMAIN DataOf(id)
        /\ DataOf(id)["Duplicates"] = <<2000>>
        /\ ~InSeq("reads unaligned exceeds 40%", res[id].output)
        /\ ~InSeq("duplicate reads exceed 20%", res[id].output)

\* the mapq check of the unit is reached: the summary holds a distribution
\* and the field read before it holds a ratio or is absent
MapqReached(id) ==
    /\ BamAnalyzed(id)
    /\ "MappingQualityDistribution" \in DOMAIN DataOf(id)
    /\ ~EmptyArray(DataOf(id), "MappedReads")

\* the mapq row of report_parser with the value low/tot percent
MapqRow(low, tot) ==
    [filetype |-> "bamcram", key |-> "mapq", value |-> Frac(low * 10000, tot)]

HasMapqRow(r) == \E i \in 1..Len(r.rows) : r.rows[i].key = "mapq"

NotFoundLine(field) ==
    CASE field = "MappedReads" -> "'MappedReads' not found"
      [] field = "MappingQualityDistribution" -> "'MappingQualityDistribution' not found"
      [] field = "Duplicates" -> "'Duplicates' not found"

ValueLines(field) ==
    CASE field = "MappedReads" ->
             {"reads unaligned exceeds 40%", "Reads unaligned exceeds 40%"}
      [] field = "MappingQualityDistribution" ->
             {"map quality <30 exceeds 20%", "Map quality <30 exceeds 20%"}
      [] field = "Duplicates" ->
             {"duplicate reads exceed 20%", "Duplicate reads exceed 20%"}

\* C9 as stated: in error_parser and report_checker, for every summary
\* analyzed as BAM/CRAM and each of the three source fields, a field absent
\* from the Data section has its own 'not found' warning and no value-based
\* warning, whatever the other two fields are.
C9_Original ==
    \A id \in DOMAIN fut :
        (BamAnalyzed(id) /\ impl \in {"error_parser", "report_checker"}) =>
            \A field \in {"MappedReads", "MappingQualityDistribution", "Duplicates"} :
                field \notin DOMAIN DataOf(id) =>
                    /\ InSeq(NotFoundLine(field), res[id].output)
                    /\ \A l \in ValueLines(field) : ~InSeq(l, res[id].output)

Decrypts(id) ==
    /\ Completed(id)
    /\ archive[id].stats.exists
    /\ archive[id].key.exists
    /\ \/ impl = "error_parser" /\ Ran(res[id], "analyze_bam_cram")
       \/ impl = "report_parser" /\ include_crypt

\* what that call has returned or raised
Decrypted(id) ==
    decrypt_stats_file(impl, archive[id].stats, archive[id].key.password)

\* the base64 text of the stream has been decoded
Decoded(id) == archive[id].stats.gz /\ archive[id].stats.b64

GcRow(r) == \E i \in 1..Len(r.rows) : r.rows[i].key = "gc_content"

\* C11: for every stream whose decoded payload does not begin with the 8
\* bytes Salted__, decrypt_stats_file raises without having derived a key
\* or decrypted a block, and returns no text: error_parser reports the
\* stats file as in error, report_parser has no GC row.
C11_HeaderCheck ==
    \A id \in DOMAIN fut :
        (Decrypts(id) /\ Decoded(id) /\ archive[id].stats.raw.magic # "Salted__") =>
            LET dec == Decrypted(id)
            IN /\ dec.raised # ""
               /\ ~InSeq("evp_bytes_to_key", dec.steps)
               /\ ~InSeq("decrypt", dec.steps)
               /\ dec.text = <<>>
               /\ impl = "error_parser" =>
                      InSeq("Error processing encrypted stats file", res[id].output)
               /\ impl = "report_parser" => ~GcRow(res[id])

\* report_parser has processed a unit whose stream holds Salted_x and then
\* two blocks that the key file's password opens
C11_Witness ==
    \E id \in DOMAIN fut :
        /\ Decrypts(id)
        /\ impl = "report_parser"
        /\ archive[id].stats = [StatsOf(TwoLines) EXCEPT !.raw.magic = "Salted_x"]
        /\ archive[id].key = KeyOf(Password)
        /\ Decrypted(id).raised = "ValueError"

\* C12: in every key derivation, every round hashes the digest of the
\* round before, then the password, then the salt, with no digest before
\* the first round; the digests are concatenated until they make 48 bytes,
\* the first 32 are the key and the next 16 the IV: the third digest is
\* H(D2 + password + salt).
C12_Original ==
    \A id \in DOMAIN fut :
        (Decrypts(id) /\ InSeq("evp_bytes_to_key", Decrypted(id).steps)) =>
            LET password == archive[id].key.password
                salt == archive[id].stats.raw.salt
                k == IF impl = "error_parser"
                         THEN ep_evp_bytes_to_key(password, salt)
                         ELSE rp_evp_bytes_to_key(password, salt)
                D == k.dtot
            IN /\ Len(D) = 3
               /\ D[1] = Md5(<<password, salt>>)
               /\ D[2] = Md5(<<D[1], password, salt>>)
               /\ D[3] = Md5(<<D[2], password, salt>>)
               /\ k.key = <<D[1], D[2]>>
               /\ k.iv = <<D[3]>>

\* C13: for every text of more than 16 bytes encrypted as documented
\* (Salted__ header, the documented key derivation, AES-256-CBC, PKCS7,
\* base64, gzip), decrypt_stats_file with the same password returns that
\* text, its first 16 bytes included.
C13_Original ==
    \A id \in DOMAIN fut :
        Decrypts(id) =>
            \A t \in StatsTexts :
                LET plaintext == FormatStats(t)
                    password == archive[id].key.password
                    stream == Stream("Salted__",
                                     EVP_BytesToKey(password, archive[id].stats.raw.salt),
                                     Pkcs7(plaintext), archive[id].stats.noise)
                IN (Len(plaintext) > 16 /\ archive[id].stats = stream) =>
                       /\ Decrypted(id).raised = ""
                       /\ Decrypted(id).text = plaintext

\* C14: for every decrypted buffer, whose last byte is p, that
\* decrypt_stats_file returns a text for, the text is the buffer without
\* its last p bytes, and so p bytes shorter, for every p, 0 included.
C14_Original ==
    \A id \in DOMAIN fut :
        (Decrypts(id) /\ Decrypted(id).padded # <<>> /\ Decrypted(id).raised = "") =>
            LET dec == Decrypted(id)
                p == dec.padded[Len(dec.padded)]
            IN /\ Len(dec.text) = Len(dec.padded) - p
               /\ dec.text = SubSeq(dec.padded, 1, Len(dec.padded) - p)

\* the lines and the counters of the stats block of analyze_bam_cram
StatsBlockLines ==
    {"stats.txt.openssl.gz not found", "Encryption key file not found",
     "Error processing encrypted stats file",
     "average GC content outside 35%-55%", "total base count is zero"}
StatsBlockKeys ==
    {"stats.txt missing", "key file missing", "stats.txt error", "% GC outside 35-55"}

\* the warnings of a unit that come from the summary JSON
JsonLines(output) ==
    SelectSeq(output, LAMBDA l : l \notin StatsBlockLines /\ l # Header("BAM/CRAM"))

\* the unit as it would be with a stream that its script decrypts, of mean
\* GC 45.00 in error_parser and 55.00 in report_parser
WithGoodStats(id) ==
    process_file(impl,
                 [archive[id] EXCEPT
                     !.stats = IF impl = "error_parser"
                                   THEN StatsFor(TwoLines)
                                   ELSE StatsOf(<< GcLine("GCF", 3, 6000, 10),
                                                   GcLine("GC", 3, 5000, 10) >>),
                     !.key = KeyOf(Password)],
                 warn_missing_file, include_crypt)

\* C15: for every BAM/CRAM unit whose decryption fails, at whatever step,
\* the unit still returns its result, the warnings and metrics that come
\* from the summary JSON are those of the same unit with a stream that
\* decrypts, and only the GC metric is unavailable: error_parser reports
\* the stats file as in error and gives no GC warning, report_parser gives
\* the same rows without the GC row.
C15_DecryptionNotFatal ==
    \A id \in DOMAIN fut :
        (Decrypts(id) /\ BamAnalyzed(id) /\ Decrypted(id).raised # "") =>
            LET r == res[id]
                good == WithGoodStats(id)
            IN /\ r.raised = ""
               /\ r.ran = good.ran
               /\ impl = "error_parser" =>
                      /\ JsonLines(r.output) = JsonLines(good.output)
                      /\ \A k \in BamKeys \ StatsBlockKeys :
                             r.counts.bam_cram_warnings[k]
                                 = good.counts.bam_cram_warnings[k]
                      /\ r.counts.fastq_warnings = good.counts.fastq_warnings
                      /\ r.counts.vcf_warnings = good.counts.vcf_warnings
                      /\ r.counts.files_no_qc_report = good.counts.files_no_qc_report
                      /\ InSeq("Error processing encrypted stats file", r.output)
                      /\ r.counts.bam_cram_warnings["stats.txt error"] = 1
                      /\ ~InSeq("average GC content outside 35%-55%", r.output)
                      /\ r.counts.bam_cram_warnings["% GC outside 35-55"] = 0
               /\ impl = "report_parser" =>
                      /\ GcRow(good)
                      /\ r.rows = SelectSeq(good.rows, LAMBDA x : x.key # "gc_content")

\* error_parser has analyzed a summary with two warnings beside a stream
\* that is not base64, and has the two warnings and the stats error
C15_Witness ==
    \E id \in DOMAIN fut :
        /\ Decrypts(id)
        /\ impl = "error_parser"
        /\ archive[id].json = JsonObject(SomeBam)
        /\ Decrypted(id).raised = "binascii.Error"
        /\ res[id].output = << ">> file_name | BAM/CRAM",
                               "reads unaligned exceeds 40%",
                               "duplicate reads exceed 20%",
                               "Error processing encrypted stats file" >>

\* the sum of gc_percent * count and the sum of count over the lines of a
\* text that start with GCF or GCL and go on, after the prefix and at most
\* one tab, with a number, a tab and a whole number
GcPairs(text) ==
    LET tab == Ord.tab
        Pair(line) ==
            LET after == SubSeq(line, 4, Len(line))
                cells == SplitOn(IF after # <<>> /\ Head(after) = tab THEN Tail(after) ELSE after,
                                 {tab})
            IN IF /\ Len(line) >= 3
                  /\ SubSeq(line, 1, 3) \in {<<Ord.G, Ord.C, Ord.F>>, <<Ord.G, Ord.C, Ord.L>>}
                  /\ Len(cells) = 2
                  /\ IsFloat(cells[1])
                  /\ Digits(cells[2])
                   THEN [gc |-> float(cells[1]) * int(cells[2]), n |-> int(cells[2])]
                   ELSE [gc |-> 0, n |-> 0]
        RECURSIVE Sum(_)
        Sum(lines) ==
            IF lines = <<>> THEN [gc |-> 0, n |-> 0]
            ELSE [gc |-> Pair(Head(lines)).gc + Sum(Tail(lines)).gc,
                  n |-> Pair(Head(lines)).n + Sum(Tail(lines)).n]
    IN Sum(splitlines(text))

\* C16: for every BAM/CRAM unit whose stats text was decrypted, the GC
\* metric is the count-weighted mean of gc_percent over all the lines
\* prefixed GCF or GCL that hold a tab-separated (gc_percent, count) pair
\* after the prefix; error_parser warns, and counts the warning, exactly
\* when the mean is below 35.00 or above 55.00; when the counts sum to zero
\* there is only the structural warning and no metric.
C16_Original ==
    \A id \in DOMAIN fut :
        (Decrypts(id) /\ BamAnalyzed(id) /\ Decrypted(id).raised = "") =>
            LET r == res[id]
                t == GcPairs(Decrypted(id).text)
                outside == t.n > 0 /\ (t.gc < 3500 * t.n \/ t.gc > 5500 * t.n)
            IN /\ impl = "error_parser" =>
                      /\ InSeq("average GC content outside 35%-55%", r.output) <=> outside
                      /\ r.counts.bam_cram_warnings["% GC outside 35-55"]
                             = IF outside THEN 1 ELSE 0
                      /\ InSeq("total base count is zero", r.output) <=> t.n = 0
               /\ impl = "report_parser" =>
                      IF t.n > 0
                          THEN InSeq([filetype |-> "bamcram", key |-> "gc_content",
                                      value |-> Frac(t.gc, t.n)], r.rows)
                          ELSE ~GcRow(r)

\* the positions of the report's lines of a kind
LinesOf(lines, kind) == {i \in 1..Len(lines) : lines[i].kind = kind}
StartMarkers == {"gc_start", "dup_start", "qual_start", "basic_start"}
Starts(lines) == {i \in 1..Len(lines) : lines[i].kind \in StartMarkers}

\* the position of the module's own >>END_MODULE: the first one after the
\* start marker at i and before the next start marker, 0 when there is none
OwnEnd(lines, i) ==
    LET ends == {j \in LinesOf(lines, "end") :
                   j > i /\ \A k \in (i + 1)..(j - 1) : lines[k].kind \notin StartMarkers \cup {"end"}}
    IN IF ends = {} THEN 0 ELSE CHOOSE j \in ends : TRUE

\* a module of rows as FastQC writes it: start marker, header line,
\* (value, count) rows, >>END_MODULE
RowModule(lines, i, hdr) ==
    /\ OwnEnd(lines, i) > i + 1
    /\ lines[i + 1].kind = hdr
    /\ \A k \in (i + 2)..(OwnEnd(lines, i) - 1) : lines[k].kind = "row"

\* a report as FastQC writes it: every module closed by its own
\* >>END_MODULE, the two row modules with header and rows, the duplication
\* module with its '#Total Deduplicated Percentage' line
AsWritten(lines) ==
    \A i \in Starts(lines) :
        /\ OwnEnd(lines, i) # 0
        /\ lines[i].kind = "gc_start" => RowModule(lines, i, "gc_hdr")
        /\ lines[i].kind = "qual_start" => RowModule(lines, i, "qual_hdr")
        /\ lines[i].kind = "dup_start" =>
               \E k \in (i + 1)..(OwnEnd(lines, i) - 1) : lines[k].kind = "dedup"

\* the rows of the module that starts at i
RowsOf(lines, i) == SubSeq(lines, i + 2, OwnEnd(lines, i) - 1)

RECURSIVE SumCount(_, _, _)
SumCount(rws, lo, hi) ==
    IF rws = <<>> THEN 0
    ELSE (IF lo <= Head(rws).a /\ Head(rws).a <= hi THEN Head(rws).b ELSE 0)
         + SumCount(Tail(rws), lo, hi)

\* error_parser has analyzed the FastQC report of the unit, a report as
\* FastQC writes it with exactly one module of the kind
FastqAnalyzed(id, script, start) ==
    /\ Completed(id)
    /\ impl = script
    /\ Ran(res[id], "analyze_fastq")
    /\ archive[id].zip.kind = "ok"
    /\ AsWritten(archive[id].zip.lines)
    /\ Cardinality(LinesOf(archive[id].zip.lines, start)) = 1

TheModule(id, start) == CHOOSE i \in LinesOf(archive[id].zip.lines, start) : TRUE

\* C17 as stated: for the "Per sequence GC content" module of a report
\* analyzed by error_parser, with gcInRangePct = 100 * (sum of the counts
\* of the rows with 35 <= gc <= 55) / (sum of all counts): the GC threshold
\* warning is emitted, and counted once, exactly when the total is
\* positive and gcInRangePct is below 35 or above 55; when the total is
\* zero the structural warning is emitted, and only then, with neither the
\* threshold warning nor its count.
C17_Original ==
    \A id \in DOMAIN fut :
        FastqAnalyzed(id, "error_parser", "gc_start") =>
            LET rws == RowsOf(archive[id].zip.lines, TheModule(id, "gc_start"))
                total == SumCount(rws, 0, 10000)
                in_range == SumCount(rws, 3500, 5500)
                outside == total > 0 /\ (in_range * 100 < 35 * total
                                          \/ in_range * 100 > 55 * total)
                r == res[id]
            IN /\ InSeq("GC content out of range 35%-55%", r.output) <=> outside
               /\ r.counts.fastq_warnings["% GC outside 35-55"] = IF outside THEN 1 ELSE 0
               /\ InSeq("total GC content is zero", r.output) <=> total = 0

\* the unit has no summary JSON and a FastQC archive, analyzed by
\* error_parser, whose GC module sums to 1000 with 600 in 35-55 and whose
\* duplication module shows a deduplicated percentage of 70
Scenario(id) ==
    /\ FastqAnalyzed(id, "error_parser", "gc_start")
    /\ FastqAnalyzed(id, "error_parser", "dup_start")
    /\ ~Exists(archive[id].json)
    /\ LET lines == archive[id].zip.lines
            rws == RowsOf(lines, TheModule(id, "gc_start"))
            d == TheModule(id, "dup_start")
       IN /\ SumCount(rws, 0, 10000) = 1000
          /\ SumCount(rws, 3500, 5500) = 600
          /\ \A k \in (d + 1)..(OwnEnd(lines, d) - 1) :
                 lines[k].kind = "dedup" => lines[k].a = 7000

\* C18 as stated: in the scenario no GC warning is emitted and the
\* duplicate warning is emitted.
C18_Original ==
    \A id \in DOMAIN fut :
        Scenario(id) =>
            /\ ~InSeq("GC content out of range 35%-55%", res[id].output)
            /\ InSeq("duplicate reads exceed 20%", res[id].output)

\* C18 amended: in the scenario gcInRangePct is 60, which is outside
\* [35, 55]: the GC warning is emitted and counted, and the duplicate
\* warning (duplicate% = 30 > 20) is emitted and counted.
C18_Scenario ==
    \A id \in DOMAIN fut :
        Scenario(id) =>
            LET r == res[id]
            IN /\ InSeq("GC content out of range 35%-55%", r.output)
               /\ InSeq("duplicate reads exceed 20%", r.output)
               /\ r.counts.fastq_warnings["% GC outside 35-55"] = 1
               /\ r.counts.fastq_warnings["% duplicate >20"] = 1
               /\ r.counts.warnings_found

\* the scenario's unit, with a species report that names Human: the two
\* warnings are all that is written
C18_Witness ==
    \E id \in DOMAIN fut :
        /\ Scenario(id)
        /\ archive[id].txt = HumanTxt
        /\ res[id].file_type = "FASTQ"
        /\ res[id].output = << ">> file_name | FASTQ",
                               "GC content out of range 35%-55%",
                               "duplicate reads exceed 20%" >>

\* the quality module of the unit's report: its rows, the sum of all
\* counts, of the counts with quality < 20 and of those with quality >= 30
QualCounts(id) ==
    LET rws == RowsOf(archive[id].zip.lines, TheModule(id, "qual_start"))
    IN [total |-> SumCount(rws, 0, 10000),
        low |-> SumCount(rws, 0, 1999),
        high |-> SumCount(rws, 3000, 10000)]

QualityRows(r) == {i \in 1..Len(r.rows) : r.rows[i].key = "quality_reads"}

\* the warnings of an analyzer that computes lowQualityPct
WarnsOnLowQuality(id) ==
    LET q == QualCounts(id)
        exceeds == q.total > 0 /\ q.low * 100 > 20 * q.total
        r == res[id]
    IN /\ InSeq("reads with quality score <20 exceed 20%", r.output) <=> exceeds
       /\ r.counts.fastq_warnings["% reads qual <20 >20"] = IF exceeds THEN 1 ELSE 0
       /\ InSeq("total quality score count is zero", r.output) <=> q.total = 0

\* C19 as stated: for the "Per sequence quality scores" module, with
\* lowQualityPct = 100 * (sum of the counts with quality < 20) / (sum of
\* all counts), the quality warning is emitted exactly when lowQualityPct
\* > 20 and only the structural warning when the total is zero; and the
\* quantity is the same in every fastq analyzer, so the quality metric
\* report_parser reports is lowQualityPct.
C19_Original ==
    \A id \in DOMAIN fut :
        /\ \A script \in {"error_parser", "report_flagger"} :
               FastqAnalyzed(id, script, "qual_start") => WarnsOnLowQuality(id)
        /\ (FastqAnalyzed(id, "report_parser", "qual_start") /\ QualCounts(id).total > 0) =>
               \E i \in QualityRows(res[id]) :
                   res[id].rows[i].value.n * QualCounts(id).total
                       = QualCounts(id).low * 10000 * res[id].rows[i].value.d

\* C19 amended: error_parser and report_flagger compute lowQualityPct,
\* emit the quality warning (counted once) exactly when it is > 20, and
\* only the structural warning when the total is zero; report_parser
\* reports instead quality_reads = 100 * (sum of the counts with quality
\* >= 30) / (sum of all counts), and no quality metric when the total is
\* zero; report_checker does not read the module.
C19_LowQuality ==
    \A id \in DOMAIN fut :
        /\ \A script \in {"error_parser", "report_flagger"} :
               FastqAnalyzed(id, script, "qual_start") => WarnsOnLowQuality(id)
        /\ FastqAnalyzed(id, "report_parser", "qual_start") =>
               LET q == QualCounts(id)
                   r == res[id]
               IN IF q.total > 0
                      THEN /\ Cardinality(QualityRows(r)) = 1
                           /\ \A i \in QualityRows(r) :
                                  /\ r.rows[i].filetype = "fastq"
                                  /\ r.rows[i].value.n * q.total
                                         = q.high * 10000 * r.rows[i].value.d
                      ELSE QualityRows(r) = {}
        /\ FastqAnalyzed(id, "report_checker", "qual_start") =>
               /\ ~InSeq("reads with quality score <20 exceed 20%", res[id].output)
               /\ ~InSeq("total quality score count is zero", res[id].output)

\* 20% of the counts exactly have a quality below 20 (the rows at 19.99):
\* error_parser has analyzed the module and written nothing
C19_Witness ==
    \E id \in DOMAIN fut :
        /\ FastqAnalyzed(id, "error_parser", "qual_start")
        /\ QualCounts(id) = [total |-> 100, low |-> 20, high |-> 40]
        /\ archive[id].txt = HumanTxt
        /\ res[id].output = <<>>
        /\ ~res[id].counts.warnings_found

\* every module of the report is closed by its own >>END_MODULE
Closed(lines) == \A i \in Starts(lines) : OwnEnd(lines, i) # 0

\* the module that starts at i has been analyzed: what its own lines,
\* those between its start marker and its >>END_MODULE, call for is in the
\* output
ModuleAnalyzed(lines, i, output) ==
    LET rws == RowsOf(lines, i)
        total == SumCount(rws, 0, 10000)
    IN /\ lines[i].kind = "dup_start" =>
              \A k \in (i + 1)..(OwnEnd(lines, i) - 1) :
                  (lines[k].kind = "dedup" /\ 10000 - lines[k].a > 2000)
                      => InSeq("duplicate reads exceed 20%", output)
       /\ (lines[i].kind = "gc_start" /\ RowModule(lines, i, "gc_hdr")) =>
              /\ total = 0 => InSeq("total GC content is zero", output)
              /\ (total > 0 /\ (SumCount(rws, 3500, 5500) * 100 < 35 * total
                                 \/ SumCount(rws, 3500, 5500) * 100 > 55 * total))
                     => InSeq("GC content out of range 35%-55%", output)
       /\ (lines[i].kind = "qual_start" /\ RowModule(lines, i, "qual_hdr")) =>
              /\ total = 0 => InSeq("total quality score count is zero", output)
              /\ (total > 0 /\ SumCount(rws, 0, 1999) * 100 > 20 * total)
                     => InSeq("reads with quality score <20 exceed 20%", output)

\* C20 as stated: in error_parser and in report_flagger, for every report
\* whose modules are each closed by their own >>END_MODULE, one lacking
\* its header or its '#Total Deduplicated Percentage' line included, the
\* scan for a module consumes no line of a later module, so every
\* recognised module of the report is analyzed.
C20_Original ==
    \A id \in DOMAIN fut :
        (/\ Completed(id)
         /\ impl \in {"error_parser", "report_flagger"}
         /\ Ran(res[id], "analyze_fastq")
         /\ archive[id].zip.kind = "ok"
         /\ Closed(archive[id].zip.lines))
            => \A i \in Starts(archive[id].zip.lines) :
                   ModuleAnalyzed(archive[id].zip.lines, i, res[id].output)

\* the species report of the unit was read: in the three scripts that
\* screen species, a FASTQ unit whose FastQC report is as FastQC writes it
SpeciesRead(id) ==
    /\ Completed(id)
    /\ impl \in {"error_parser", "report_flagger", "report_checker"}
    /\ Ran(res[id], "analyze_fastq")
    /\ archive[id].zip.kind = "ok"
    /\ AsWritten(archive[id].zip.lines)

\* the per-genome rows of a species report whose column names are on the
\* second line
DataRows(txt) == { i \in 3..Len(txt.lines) : txt.lines[i].numeric }

\* the row with the largest one-hit count, the first of them
Winner(txt) ==
    txt.lines[CHOOSE i \in DataRows(txt) :
                  \A j \in DataRows(txt) :
                      \/ txt.lines[j].one_hit < txt.lines[i].one_hit
                      \/ (txt.lines[j].one_hit = txt.lines[i].one_hit /\ j >= i)]

\* the species warning written for the unit
SpeciesVerdict(r) ==
    IF \/ InSeq("most reads mapped to another species", r.output)
       \/ InSeq("Most reads mapped to another species", r.output)
        THEN "sp_not_human"
    ELSE IF InSeq("species is unknown", r.output) THEN "species_unknown"
    ELSE ""

\* C21 as stated: in error_parser, report_flagger and report_checker, for
\* every species report with its column names and at least one per-genome
\* row, the winner is the first row with the largest one-hit count; the
\* warning is sp_not_human iff the winner is not Human, species_unknown iff
\* the winner is Human with a one-hit percentage below 5.0, and none
\* otherwise.
C21_Original ==
    \A id \in DOMAIN fut :
        (/\ SpeciesRead(id)
         /\ archive[id].txt.exists
         /\ Len(archive[id].txt.lines) >= 3
         /\ SpeciesColumns \subseteq archive[id].txt.lines[2].cols
         /\ DataRows(archive[id].txt) # {})
            => SpeciesVerdict(res[id]) =
                   (IF Winner(archive[id].txt).genome # "Human" THEN "sp_not_human"
                    ELSE IF Winner(archive[id].txt).pct < SpeciesMinPct
                        THEN "species_unknown"
                    ELSE "")

\* the fastq counter keys and the texts of the species screening
SpeciesKeys == {"species file missing", "species error", "sp not human",
                "species unknown", "sp not-human"}
SpeciesTexts == {"species file not found", "required columns not found",
                 "most reads mapped to another species", "species is unknown",
                 "Species file input_screen.txt not found",
                 "Error processing input_screen.txt species file",
                 "Most reads mapped to another species"}

\* C22: the absent species report.  For every FASTQ unit whose species
\* report does not exist: with the warn-on-missing flag set the unit
\* carries the file-missing warning (in error_parser and report_flagger
\* counted once under "species file missing" and under no other species
\* key); with the flag unset the unit carries no species text and none of
\* its species counters is incremented.
C22_AbsentReport ==
    \A id \in DOMAIN fut :
        (SpeciesRead(id) /\ ~archive[id].txt.exists)
            => IF warn_missing_file
                   THEN /\ \E t \in {"species file not found",
                                      "Species file input_screen.txt not found"} :
                               InSeq(t, res[id].output)
                        /\ impl # "report_checker" =>
                               \A k \in SpeciesKeys :
                                   res[id].counts.fastq_warnings[k] =
                                       IF k = "species file missing" THEN 1 ELSE 0
                   ELSE /\ \A t \in SpeciesTexts : ~InSeq(t, res[id].output)
                        /\ \A k \in SpeciesKeys : res[id].counts.fastq_warnings[k] = 0

\* an absent report with the flag unset, beside a FastQC report that does
\* warn: the unit has output but nothing from the species screening
C22_Witness ==
    \E id \in DOMAIN fut :
        /\ SpeciesRead(id)
        /\ impl = "error_parser"
        /\ ~archive[id].txt.exists
        /\ ~warn_missing_file
        /\ res[id].output # <<>>
        /\ \A k \in SpeciesKeys : res[id].counts.fastq_warnings[k] = 0

\* the verdict on the rows that follow line h (counted from 1) of a report:
\* the first row with the largest one-hit count decides, and with no row
\* the empty genome name is "not Human"
VerdictAfter(txt, h) ==
    LET rws == { i \in (h + 1)..Len(txt.lines) : txt.lines[i].numeric }
        best == txt.lines[CHOOSE i \in rws :
                              \A j \in rws :
                                  \/ txt.lines[j].one_hit < txt.lines[i].one_hit
                                  \/ (txt.lines[j].one_hit = txt.lines[i].one_hit /\ j >= i)]
    IN IF rws = {} THEN "sp_not_human"
       ELSE IF best.genome # "Human" THEN "sp_not_human"
       ELSE IF best.pct < SpeciesMinPct THEN "species_unknown"
       ELSE ""

\* the species classifier of error_parser and report_flagger, on a report
\* whose line h (counted from 1) holds the column names: species_error
\* when a column name is missing, otherwise the verdict on the rows after
\* line h
LayoutAt(id, h) ==
    IF SpeciesColumns \subseteq archive[id].txt.lines[h].cols
        THEN /\ ~InSeq("required columns not found", res[id].output)
             /\ SpeciesVerdict(res[id]) = VerdictAfter(archive[id].txt, h)
        ELSE /\ InSeq("required columns not found", res[id].output)
             /\ SpeciesVerdict(res[id]) = ""

\* C23 as stated: the column header is row 2 (0-indexed), the third line of
\* the report; the rows after it are the data rows, and a report whose
\* header row lacks a column name yields species_error.
C23_Original ==
    \A id \in DOMAIN fut :
        (/\ SpeciesRead(id)
         /\ impl \in {"error_parser", "report_flagger"}
         /\ archive[id].txt.exists
         /\ Len(archive[id].txt.lines) >= 3)
            => LayoutAt(id, 3)

\* C23 amended: the column header is row 1 (0-indexed), the second line, of
\* a report of at least three lines; the rows after it are the data rows,
\* and such a report whose header row lacks a column name yields
\* species_error.
C23_Layout ==
    \A id \in DOMAIN fut :
        (/\ SpeciesRead(id)
         /\ impl \in {"error_parser", "report_flagger"}
         /\ archive[id].txt.exists
         /\ Len(archive[id].txt.lines) >= 3)
            => LayoutAt(id, 2)

\* a report with the column names on its third line yields species_error
C23_Witness ==
    \E id \in DOMAIN fut :
        /\ SpeciesRead(id)
        /\ impl = "error_parser"
        /\ archive[id].txt.exists
        /\ Len(archive[id].txt.lines) >= 4
        /\ SpeciesColumns \subseteq archive[id].txt.lines[3].cols
        /\ InSeq("required columns not found", res[id].output)
        /\ res[id].counts.fastq_warnings["species error"] = 1

\* the flagKey of the species warning the report of the unit calls for
\* ("" for none), in error_parser and report_flagger
SpeciesKeyFor(id) ==
    LET txt == archive[id].txt
    IN IF ~txt.exists
           THEN IF warn_missing_file THEN "species file missing" ELSE ""
       ELSE IF Len(txt.lines) < 3 THEN ""
       ELSE IF ~(SpeciesColumns \subseteq txt.lines[2].cols) THEN "species error"
       ELSE IF VerdictAfter(txt, 2) = "sp_not_human" THEN "sp not human"
       ELSE IF VerdictAfter(txt, 2) = "species_unknown" THEN "species unknown"
       ELSE ""

\* C24 as stated: in error_parser and report_flagger, for every FASTQ
\* identifier whose species classifier returns a warning with key k, the
\* identifier's fastq counter for k is exactly one, the run-summary count
\* for k is one once the unit is merged, and recording the warning
\* produces no error record.
C24_Original ==
    \A id \in DOMAIN fut :
        (/\ SpeciesRead(id)
         /\ impl \in {"error_parser", "report_flagger"}
         /\ SpeciesKeyFor(id) # "")
            => /\ res[id].counts.fastq_warnings[SpeciesKeyFor(id)] = 1
               /\ fut[id] = "merged" =>
                      summary.fastq_warnings[SpeciesKeyFor(id)] = 1
               /\ ~InSeq("Error processing FASTQ QC report", res[id].output)

\* the units whose result the driver has merged
MergedUnits == { id \in DOMAIN fut : fut[id] = "merged" }

\* the sum of f over a set of units
RECURSIVE SumOver(_, _)
SumOver(ids, f) ==
    IF ids = {} THEN 0
    ELSE LET id == CHOOSE x \in ids : TRUE
         IN f[id] + SumOver(ids \ {id}, f)

\* the run summary holds every increment of every merged unit, and nothing
\* else
NoLostUpdate ==
    /\ summary.total_files_checked = Cardinality(MergedUnits)
    /\ summary.files_with_warnings =
           Cardinality({ id \in MergedUnits : res[id].counts.warnings_found })
    /\ summary.files_no_qc_report =
           SumOver(MergedUnits, [id \in DOMAIN fut |-> res[id].counts.files_no_qc_report])
    /\ \A k \in FastqKeys :
           summary.fastq_warnings[k] =
               SumOver(MergedUnits, [id \in DOMAIN fut |-> res[id].counts.fastq_warnings[k]])
    /\ \A k \in BamKeys :
           summary.bam_cram_warnings[k] =
               SumOver(MergedUnits, [id \in DOMAIN fut |-> res[id].counts.bam_cram_warnings[k]])

\* a step that changes the run summary is the merge of one completed unit,
\* and a step that changes a unit's result is that unit's worker returning,
\* which leaves the run summary and every other unit's result alone
SingleWriterStep ==
    /\ summary' # summary =>
           \E id \in DOMAIN fut :
               /\ fut[id] = "done" /\ fut'[id] = "merged"
               /\ \A j \in DOMAIN fut \ {id} : fut'[j] = fut[j]
               /\ res' = res
    /\ res' # res =>
           \E id \in DOMAIN fut :
               /\ fut[id] = "running" /\ fut'[id] = "done"
               /\ \A j \in DOMAIN fut \ {id} : res'[j] = res[j]
               /\ summary' = summary

\* C25: single-writer aggregation in error_parser (and report_flagger, the
\* same driver).  In every interleaving of the workers the run summary is
\* changed only by the driver merging one completed unit at a time, a
\* worker changes only the result of its own unit, and after every step
\* the run summary is the sum of the counts of the merged units: no
\* increment is lost.
C25_SingleWriter ==
    /\ [](impl \in {"error_parser", "report_flagger"} => NoLostUpdate)
    /\ [][(impl \in {"error_parser", "report_flagger"}) => SingleWriterStep]_vars

\* two units of one batch: one is merged, with its warning counted, while
\* the worker of the other is still running
C25_Witness ==
    /\ impl = "error_parser"
    /\ \E a, b \in DOMAIN fut :
           /\ fut[a] = "merged" /\ fut[b] = "running"
           /\ InBatch(a) /\ InBatch(b)
           /\ res[a].counts.warnings_found
    /\ summary.files_with_warnings = 1

\* C26 as stated: exactly-once processing in the batch drivers of
\* error_parser and report_checker.  A unit is submitted once (it is queued
\* only when it has not been submitted, and it waits in the list exactly
\* until then) and merged once (only when its future is done); when the
\* run is over every unit is merged and the identifiers-processed total
\* equals the number of identifiers, failed analyses included.
C26_Original ==
    /\ [][(impl \in {"error_parser", "report_checker"}) =>
              \A id \in DOMAIN fut :
                  /\ (fut'[id] = "queued" /\ fut[id] # "queued") => fut[id] = "none"
                  /\ (fut'[id] = "merged" /\ fut[id] # "merged") => fut[id] = "done"]_vars
    /\ []((impl \in {"error_parser", "report_checker"})
              => /\ \A id \in DOMAIN fut : InSeq(id, rest) <=> fut[id] = "none"
                 /\ pc = "finished" =>
                        /\ \A id \in DOMAIN fut : fut[id] = "merged"
                        /\ summary.total_files_checked = Len(egaf_list))

\* C27 as stated: the two key derivations are equivalent.  For the password
\* and the salt of every unit whose stats file is decrypted,
\* error_parser.evp_bytes_to_key and report_parser._evp_bytes_to_key return
\* the same key and the same IV.
C27_Original ==
    \A id \in DOMAIN fut :
        (Decrypts(id) /\ InSeq("evp_bytes_to_key", Decrypted(id).steps)) =>
            /\ ep_evp_bytes_to_key(archive[id].key.password, archive[id].stats.raw.salt).key
                   = rp_evp_bytes_to_key(archive[id].key.password, archive[id].stats.raw.salt).key
            /\ ep_evp_bytes_to_key(archive[id].key.password, archive[id].stats.raw.salt).iv
                   = rp_evp_bytes_to_key(archive[id].key.password, archive[id].stats.raw.salt).iv

\* C28: the accounting invariant of error_parser's batch driver.  In every
\* state of the run, so after every merge step: files_with_qc_report +
\* files_no_qc_report = total_files_checked, files_with_warnings_and_qc <=
\* files_with_warnings <= total_files_checked, and total_fastq_files +
\* total_bam_cram_files + total_vcf_files <= total_files_checked.
C28_Accounting ==
    impl = "error_parser" =>
        /\ summary.files_with_qc_report + summary.files_no_qc_report
               = summary.total_files_checked
        /\ summary.files_with_warnings_and_qc <= summary.files_with_warnings
        /\ summary.files_with_warnings <= summary.total_files_checked
        /\ summary.total_fastq_files + summary.total_bam_cram_files
               + summary.total_vcf_files <= summary.total_files_checked

\* three merged units: one without any QC report, one whose processing
\* failed (no file type) and one FASTQ unit that warns
C28_Witness ==
    /\ impl = "error_parser"
    /\ summary.total_files_checked = 3
    /\ summary.files_no_qc_report = 1
    /\ summary.files_with_qc_report = 2
    /\ summary.files_with_warnings = 3
    /\ summary.files_with_warnings_and_qc = 2
    /\ summary.total_fastq_files = 1
    /\ summary.total_bam_cram_files = 0

\* the units submitted and not yet merged
InFlight == { id \in DOMAIN fut : fut[id] \in {"queued", "running", "done"} }

\* the rows appended for the unit, in order
RECURSIVE RowsFor(_, _)
RowsFor(id, rws) ==
    IF rws = <<>> THEN <<>>
    ELSE IF Head(rws).id = id THEN <<Head(rws)>> \o RowsFor(id, Tail(rws))
    ELSE RowsFor(id, Tail(rws))

\* the rows of each unit lie together
Contiguous(rws) ==
    \A i, k \in 1..Len(rws) :
        (i < k /\ rws[i].id = rws[k].id) =>
            \A j \in i..k : rws[j].id = rws[i].id

\* report_parser runs its parallel path
rp_Parallel == impl = "report_parser" /\ threads # 0 /\ Len(egaf_list) # 1

C30_Original ==
    \A id \in DOMAIN fut :
        (Completed(id) /\ impl = "error_parser") =>
            /\ res[id].output # <<>> <=> res[id].counts.warnings_found
            /\ res[id].output # <<>> => Head(res[id].output) = Header(res[id].file_type)

====
